---- MODULE Spec2Model ----
(***************************************************************************)
(* A model of the AI agent server: the orchestrator of src/server/agent.js *)
(* (AIAgent: conversation history, tool registry, the two model rounds and *)
(* the tool batch of one turn) and the four store tools of                 *)
(* src/server/tools (query, insert, update, delete) with their guards.     *)
(*                                                                         *)
(* Several specifications share the module.  Spec is the orchestrator with *)
(* turns that suspend at every await (the two model calls and each tool    *)
(* call) and may therefore overlap, and clearHistory; a tool is seen       *)
(* through its interface only (it returns an outcome or throws).  TurnSpec *)
(* is one processMessage call on its own, with every kind of response,     *)
(* tool call and tool outcome; ResetSpec adds resets of the history to it, *)
(* FairTurnSpec the fairness of its resumptions.                           *)
(* CallersSpec is the /chat route with callers of different conversation   *)
(* ids.  RegistrySpec is the tool registry with registrations after        *)
(* construction.  ToolSpec is one call of a store tool against a           *)
(* collection: the store content and the arguments are drawn by its        *)
(* initial state and its actions, the actions are the steps of execute     *)
(* between its awaits.  RaceSpec is two tool calls of overlapping turns on *)
(* one collection.                                                         *)
(***************************************************************************)
EXTENDS Integers, Sequences, FiniteSets, TLC

VARIABLES
    conversationHistory,  \* AIAgent.conversationHistory: sequence of messages
    tools,                \* AIAgent.tools: Map name -> tool contract
    turn,                 \* one record per processMessage call (its locals and position)
    store,                \* documents of the collection, in natural (insertion) order
    isConnected,          \* mongoDb.isConnected
    call                  \* the execute call of a store tool (its locals and position)

agentVars == <<conversationHistory, tools, turn>>
toolVars == <<store, isConnected, call>>
vars == <<conversationHistory, tools, turn, store, isConnected, call>>

(***************************************************************************)
(* Bounds of the model.                                                    *)
(***************************************************************************)
MaxTurns == 2      \* processMessage calls in one behaviour
MaxCalls == 2      \* tool calls in one model response

Turns == 1..MaxTurns

(***************************************************************************)
(* Text.  A text is a sequence of fragments, so that concatenation (error  *)
(* messages built from template literals, JSON encodings) is \o.  The      *)
(* JavaScript null is the text Null.                                       *)
(***************************************************************************)
Null == <<"\\null">>
EmptyText == <<>>

\* x || '' of agent.js line 85
OrEmpty(x) == IF x = Null \/ x = EmptyText THEN EmptyText ELSE x

(***************************************************************************)
(* JSON.parse of the argument texts the model client may send              *)
(* (agent.js line 152).  "null" is valid JSON and parses to null; the      *)
(* truncated text throws a SyntaxError.                                    *)
(***************************************************************************)
ArgObject == <<"{\"collection\":\"users\",\"operation\":\"count\"}">>
ArgNull == <<"null">>
ArgBroken == <<"{\"collection\":">>
ArgTexts == {ArgObject, ArgNull, ArgBroken}

SyntaxErrorMessage == <<"Unexpected end of JSON input">>

JSONparse(text) ==
    IF text = ArgObject
    THEN [ok |-> TRUE, value |-> [collection |-> "users", operation |-> "count"]]
    ELSE IF text = ArgNull
    THEN [ok |-> TRUE, value |-> Null]
    ELSE [ok |-> FALSE, error |-> SyntaxErrorMessage]

(***************************************************************************)
(* Outcomes of a tool as the orchestrator sees them, and JSON.stringify of *)
(* a result (agent.js line 93).                                            *)
(***************************************************************************)
OutcomeSuccess ==
    [success |-> TRUE, operation |-> "count", collection |-> "users", count |-> 1, data |-> 10]
OutcomeFailure ==
    [success |-> FALSE, error |-> <<"Database not connected">>,
     operation |-> "count", collection |-> "users"]
ToolOutcomes == {OutcomeSuccess, OutcomeFailure}
ThrownMessage == <<"Cannot destructure property 'collection' of 'params' as it is null.">>

\* the keys in insertion order; the tools' outcomes carry operation and
\* collection, the orchestrator's own failure outcome (lines 177-180) does not
JSONstringify(result) ==
    IF result.success
    THEN <<"{\"success\":true,\"operation\":\"", result.operation,
           "\",\"collection\":\"", result.collection, "\",\"count\":1,\"data\":10}">>
    ELSE IF "operation" \in DOMAIN result
    THEN <<"{\"success\":false,\"error\":\"">> \o result.error
         \o <<"\",\"operation\":\"", result.operation,
               "\",\"collection\":\"", result.collection, "\"}">>
    ELSE <<"{\"success\":false,\"error\":\"">> \o result.error \o <<"\"}">>

(***************************************************************************)
(* Tool contracts and the registry (agent.js lines 10-33).                 *)
(***************************************************************************)
Contract(n, d) == [name |-> n, description |-> d, parameters |-> <<"schema of ", n>>]

MongoTool == Contract("fetch_mongodb_data", "Fetch data from MongoDB collections.")
MongoInsertTool == Contract("insert_mongodb_data", "Insert new documents into MongoDB collections.")
MongoDeleteTool == Contract("delete_mongodb_data", "Delete documents from MongoDB collections.")
MongoUpdateTool == Contract("update_mongodb_data", "Update existing documents in MongoDB collections.")

\* Map.set(tool.name, tool): the entry of that name is created or replaced
MapSet(map, tool) ==
    [n \in DOMAIN map \cup {tool.name} |-> IF n = tool.name THEN tool ELSE map[n]]

EmptyMap == [n \in {} |-> MongoTool]

\* the registry after the constructor has registered the four tools
ConstructedTools ==
    MapSet(MapSet(MapSet(MapSet(EmptyMap, MongoTool), MongoInsertTool),
                  MongoDeleteTool), MongoUpdateTool)

\* tools a caller may register later: under new names and under names already
\* present, each name with more than one contract
LaterNames ==
    {"extra_tool", "other_tool", "fetch_mongodb_data", "insert_mongodb_data",
     "delete_mongodb_data"}
LaterDescriptions ==
    {"A tool registered after construction.", "Another tool under the same name."}

LaterTools == { Contract(n, d) : n \in LaterNames, d \in LaterDescriptions }

\* mutant: the entries of getToolInfo leave the parameter schema out
getToolInfoBare(map) ==
    [n \in DOMAIN map |->
        [name |-> map[n].name, description |-> map[n].description,
         parameters |-> <<>>]]

\* getToolInfo (agent.js lines 200-210): one entry per key of the map
getToolInfo(map) ==
    [n \in DOMAIN map |->
        [name |-> map[n].name, description |-> map[n].description,
         parameters |-> map[n].parameters]]

\* llm.formatTools(getAvailableTools()) of agent.js line 73, llm.js lines 58-66
formatTools(map) ==
    { [type |-> "function", function |-> map[n]] : n \in DOMAIN map }

(***************************************************************************)
(* Messages (agent.js lines 41-44, 83-87, 91-95, 107-110, 122-125).        *)
(***************************************************************************)
SystemPrompt == <<"You are a helpful AI agent with access to MongoDB database tools.">>
SynthesisSuffix == <<"Based on the tool results, provide a helpful response to the user.">>
Apology == <<"Sorry, I encountered an error while processing your request.">>

SystemMessage(text) == [role |-> "system", content |-> text]
UserMessage(text) == [role |-> "user", content |-> text]
AssistantMessage(text) == [role |-> "assistant", content |-> text]
AssistantCallsMessage(response) ==
    [role |-> "assistant", content |-> OrEmpty(response.content),
     tool_calls |-> response.tool_calls]
ToolMessage(toolResult) ==
    [role |-> "tool", content |-> JSONstringify(toolResult.result),
     tool_call_id |-> toolResult.tool_call_id]

\* mutant: only the results that report success are appended
ToolMessagesOfSuccesses(results) ==
    LET ok == SelectSeq(results, LAMBDA r : r.result.success)
    IN  [i \in 1..Len(ok) |-> ToolMessage(ok[i])]

\* mutant: the tool messages are appended last result first
ToolMessagesReversed(results) ==
    [i \in 1..Len(results) |-> ToolMessage(results[Len(results) + 1 - i])]

\* the tool messages of a batch, one per result, in the order of the results
ToolMessages(results) == [i \in 1..Len(results) |-> ToolMessage(results[i])]

(***************************************************************************)
(* What the model client may answer.  A tool call is                       *)
(* {id, function: {name, arguments}}; the ids of one behaviour are         *)
(* distinct.                                                               *)
(***************************************************************************)
UserTexts == {<<"How many users are in the database?">>}
Contents == {<<"There are 10 users.">>, Null}
CallNames == {"fetch_mongodb_data", "no_such_tool"}
CallArgTexts == {ArgObject, ArgBroken}
ConversationIds == {"default", "other"}

CallId(t, i) == (t - 1) * MaxCalls + i

ToolCall(t, i, n, a) == [id |-> CallId(t, i), function |-> [name |-> n, arguments |-> a]]

\* the batches of 0..MaxCalls tool calls a response to turn t may carry
Batches(t) ==
    UNION { { [i \in 1..k |-> ToolCall(t, i, ns[i], as[i])] :
                ns \in [1..k -> CallNames], as \in [1..k -> CallArgTexts] } :
            k \in 0..MaxCalls }

\* what the second response may carry: nothing, or one more tool call
FinalBatches(t) ==
    {<<>>, <<ToolCall(t, MaxCalls + 1, "fetch_mongodb_data", ArgObject)>>}

(***************************************************************************)
(* executeToolCalls (agent.js lines 146-186), up to its next await.        *)
(***************************************************************************)
ToolResult(toolCall, result) ==
    [tool_call_id |-> toolCall.id, tool_name |-> toolCall.function.name, result |-> result]

\* the catch block, lines 172-182
CaughtResult(toolCall, message) ==
    ToolResult(toolCall, [success |-> FALSE, error |-> message])

UnknownToolMessage(toolName) == <<"Unknown tool: ", toolName>>

\* The loop from call i on, with the registry as it is now: the calls that fail
\* before tool.execute (line 152 throws, or line 158) are answered on the spot;
\* the loop stops at the first call that reaches `await tool.execute` (idx is
\* its index) or at the end of the batch (idx = Len(toolCalls) + 1).
\* mutant: the first call that fails before tool.execute ends the batch
executeLoopAborting(map, toolCalls, i, results) ==
    IF i > Len(toolCalls)
    THEN [idx |-> i, results |-> results]
    ELSE LET toolCall == toolCalls[i]
             parsed == JSONparse(toolCall.function.arguments)
         IN  IF ~parsed.ok
             THEN [idx |-> Len(toolCalls) + 1,
                   results |-> Append(results, CaughtResult(toolCall, parsed.error))]
             ELSE IF toolCall.function.name \notin DOMAIN map
             THEN [idx |-> Len(toolCalls) + 1,
                   results |-> Append(results, CaughtResult(toolCall,
                                  UnknownToolMessage(toolCall.function.name)))]
             ELSE [idx |-> i, results |-> results]

RECURSIVE executeLoop(_, _, _, _)
executeLoop(map, toolCalls, i, results) ==
    IF i > Len(toolCalls)
    THEN [idx |-> i, results |-> results]
    ELSE LET toolCall == toolCalls[i]
             parsed == JSONparse(toolCall.function.arguments)
         IN  IF ~parsed.ok
             THEN executeLoop(map, toolCalls, i + 1,
                              Append(results, CaughtResult(toolCall, parsed.error)))
             ELSE IF toolCall.function.name \notin DOMAIN map
             THEN executeLoop(map, toolCalls, i + 1,
                              Append(results, CaughtResult(toolCall,
                                  UnknownToolMessage(toolCall.function.name))))
             ELSE [idx |-> i, results |-> results]

(***************************************************************************)
(* processMessage (agent.js lines 36-143).  A turn record holds the locals *)
(* of one call and where it is suspended:                                  *)
(*   idle         not called yet                                           *)
(*   awaitModel1  at `await this.llm.chatWithTools` (line 73)              *)
(*   awaitTool    at `await tool.execute` (line 162) for call idx          *)
(*   awaitModel2  at `await this.llm.sendMessage` (line 104)               *)
(*   done         returned; ret is the value returned                      *)
(* finalResponse is the second response as it arrived.                     *)
(* pushed, sent, invoked and returned record what the call did: the        *)
(* messages it appended, the model requests it sent, the calls whose tool  *)
(* was invoked and what each tool gave back.                               *)
(***************************************************************************)
IdleTurn ==
    [pc |-> "idle", userMessage |-> Null,
     history0 |-> <<>>, response |-> [content |-> Null, tool_calls |-> <<>>],
     finalResponse |-> [content |-> Null, tool_calls |-> <<>>],
     idx |-> 0, results |-> <<>>, ret |-> [success |-> FALSE],
     pushed |-> <<>>, sent |-> <<>>, invoked |-> <<>>, returned |-> <<>>]

ModelRequest(messages, toolSet) == [messages |-> messages, tools |-> toolSet]

\* mutant: the second request carries the tool contracts too
FinishBatchWithTools(t, rec, results) ==
    LET added == <<AssistantCallsMessage(rec.response)>> \o ToolMessages(results)
        history == conversationHistory \o added
    IN  /\ conversationHistory' = history
        /\ turn' = [turn EXCEPT ![t] =
              [rec EXCEPT !.pc = "awaitModel2", !.results = results,
                          !.idx = Len(rec.response.tool_calls) + 1,
                          !.pushed = @ \o added,
                          !.sent = Append(@, ModelRequest(
                              <<SystemMessage(SystemPrompt \o SynthesisSuffix)>> \o history,
                              formatTools(tools)))]]

\* mutant: the tool messages are appended before the assistant message
FinishBatchToolsFirst(t, rec, results) ==
    LET added == ToolMessages(results) \o <<AssistantCallsMessage(rec.response)>>
        history == conversationHistory \o added
    IN  /\ conversationHistory' = history
        /\ turn' = [turn EXCEPT ![t] =
              [rec EXCEPT !.pc = "awaitModel2", !.results = results,
                          !.idx = Len(rec.response.tool_calls) + 1,
                          !.pushed = @ \o added,
                          !.sent = Append(@, ModelRequest(
                              <<SystemMessage(SystemPrompt \o SynthesisSuffix)>> \o history,
                              {}))]]

\* mutant: the tool message of the last result is left out
FinishBatchOneToolShort(t, rec, results) ==
    LET added == <<AssistantCallsMessage(rec.response)>> \o
                     ToolMessages(SubSeq(results, 1, Len(results) - 1))
        history == conversationHistory \o added
    IN  /\ conversationHistory' = history
        /\ turn' = [turn EXCEPT ![t] =
              [rec EXCEPT !.pc = "awaitModel2", !.results = results,
                          !.idx = Len(rec.response.tool_calls) + 1,
                          !.pushed = @ \o added,
                          !.sent = Append(@, ModelRequest(
                              <<SystemMessage(SystemPrompt \o SynthesisSuffix)>> \o history,
                              {}))]]

\* lines 83-104: the batch is over; the assistant message and the tool
\* messages are appended and the second request is sent, without tools
FinishBatch(t, rec, results) ==
    LET added == <<AssistantCallsMessage(rec.response)>> \o ToolMessages(results)
        history == conversationHistory \o added
    IN  /\ conversationHistory' = history
        /\ turn' = [turn EXCEPT ![t] =
              [rec EXCEPT !.pc = "awaitModel2", !.results = results,
                          !.idx = Len(rec.response.tool_calls) + 1,
                          !.pushed = @ \o added,
                          !.sent = Append(@, ModelRequest(
                              <<SystemMessage(SystemPrompt \o SynthesisSuffix)>> \o history,
                              {}))]]

\* mutant: a batch with a failure outcome ends the turn as a failed one
ContinueBatchFailingTurn(t, rec, i, results) ==
    LET loop == executeLoop(tools, rec.response.tool_calls, i, results)
    IN  IF loop.idx > Len(rec.response.tool_calls)
        THEN IF \E k \in 1..Len(loop.results) : ~loop.results[k].result.success
             THEN /\ turn' = [turn EXCEPT ![t] =
                        [rec EXCEPT !.pc = "done", !.results = loop.results,
                                    !.idx = Len(rec.response.tool_calls) + 1,
                                    !.ret = [success |-> FALSE,
                                             error |-> <<"tool failed">>,
                                             response |-> Apology]]]
                  /\ UNCHANGED conversationHistory
             ELSE FinishBatch(t, rec, loop.results)
        ELSE /\ turn' = [turn EXCEPT ![t] =
                   [rec EXCEPT !.pc = "awaitTool", !.idx = loop.idx,
                               !.results = loop.results,
                               !.invoked = Append(@, loop.idx)]]
             /\ UNCHANGED conversationHistory

\* mutant: the tool of the next call is started together with this one
ContinueBatchTwoAtOnce(t, rec, i, results) ==
    LET loop == executeLoop(tools, rec.response.tool_calls, i, results)
    IN  IF loop.idx > Len(rec.response.tool_calls)
        THEN FinishBatch(t, rec, loop.results)
        ELSE /\ turn' = [turn EXCEPT ![t] =
                   [rec EXCEPT !.pc = "awaitTool", !.idx = loop.idx,
                               !.results = loop.results,
                               !.invoked =
                                   IF loop.idx < Len(rec.response.tool_calls)
                                   THEN @ \o <<loop.idx, loop.idx + 1>>
                                   ELSE Append(@, loop.idx)]]
             /\ UNCHANGED conversationHistory

\* the loop goes on from call i: it suspends at the next tool, or the batch ends
ContinueBatch(t, rec, i, results) ==
    LET loop == executeLoop(tools, rec.response.tool_calls, i, results)
    IN  IF loop.idx > Len(rec.response.tool_calls)
        THEN FinishBatch(t, rec, loop.results)
        ELSE /\ turn' = [turn EXCEPT ![t] =
                   [rec EXCEPT !.pc = "awaitTool", !.idx = loop.idx,
                               !.results = loop.results,
                               !.invoked = Append(@, loop.idx)]]
             /\ UNCHANGED conversationHistory

\* mutant: the first request of a turn carries the turn's own message only
StartTurnIsolated(t, userMessage, conversationId) ==
    /\ turn[t].pc = "idle"
    /\ \A u \in Turns : u < t => turn[u].pc # "idle"
    /\ LET history == Append(conversationHistory, UserMessage(userMessage))
       IN  /\ conversationHistory' = history
           /\ turn' = [turn EXCEPT ![t] =
                 [@ EXCEPT !.pc = "awaitModel1", !.userMessage = userMessage,
                           !.history0 = conversationHistory,
                           !.pushed = <<UserMessage(userMessage)>>,
                           !.sent = <<ModelRequest(
                               <<SystemMessage(SystemPrompt), UserMessage(userMessage)>>,
                               formatTools(tools))>>]]
    /\ UNCHANGED <<tools, toolVars>>

\* lines 36-73: the user message is appended and the first request is sent
StartTurn(t, userMessage, conversationId) ==
    /\ turn[t].pc = "idle"
    /\ \A u \in Turns : u < t => turn[u].pc # "idle"
    /\ LET history == Append(conversationHistory, UserMessage(userMessage))
       IN  /\ conversationHistory' = history
           /\ turn' = [turn EXCEPT ![t] =
                 [@ EXCEPT !.pc = "awaitModel1", !.userMessage = userMessage,
                           !.history0 = conversationHistory,
                           !.pushed = <<UserMessage(userMessage)>>,
                           !.sent = <<ModelRequest(
                               <<SystemMessage(SystemPrompt)>> \o history,
                               formatTools(tools))>>]]
    /\ UNCHANGED <<tools, toolVars>>

\* lines 73-133: the first response arrives
FirstResponse(t, content, toolCalls) ==
    /\ turn[t].pc = "awaitModel1"
    /\ LET response == [content |-> content, tool_calls |-> toolCalls]
           rec == [turn[t] EXCEPT !.response = response]
       IN  IF Len(toolCalls) > 0
           THEN ContinueBatch(t, rec, 1, <<>>)
           ELSE /\ conversationHistory' =
                      Append(conversationHistory, AssistantMessage(content))
                /\ turn' = [turn EXCEPT ![t] =
                      [rec EXCEPT !.pc = "done",
                                  !.pushed = Append(@, AssistantMessage(content)),
                                  !.ret = [success |-> TRUE, response |-> content,
                                           toolsUsed |-> <<>>, toolResults |-> <<>>]]]
    /\ UNCHANGED <<tools, toolVars>>

\* lines 162-168: tool.execute returned an outcome
ToolReturns(t, outcome) ==
    /\ turn[t].pc = "awaitTool"
    /\ LET rec == turn[t]
           toolCall == rec.response.tool_calls[rec.idx]
           rec2 == [rec EXCEPT !.returned = Append(@, [idx |-> rec.idx, outcome |-> outcome])]
       IN  ContinueBatch(t, rec2, rec.idx + 1,
                         Append(rec.results, ToolResult(toolCall, outcome)))
    /\ UNCHANGED <<tools, toolVars>>

\* lines 172-182: tool.execute threw
ToolThrows(t, message) ==
    /\ turn[t].pc = "awaitTool"
    /\ LET rec == turn[t]
           toolCall == rec.response.tool_calls[rec.idx]
       IN  ContinueBatch(t, rec, rec.idx + 1,
                         Append(rec.results, CaughtResult(toolCall, message)))
    /\ UNCHANGED <<tools, toolVars>>

\* mutant: the final answer takes the place of the last message of the history
FinalResponseRewriting(t, content, toolCalls) ==
    /\ turn[t].pc = "awaitModel2"
    /\ LET rec == turn[t]
           kept == SubSeq(conversationHistory, 1, Len(conversationHistory) - 1)
       IN  /\ conversationHistory' = Append(kept, AssistantMessage(content))
           /\ turn' = [turn EXCEPT ![t] =
                 [rec EXCEPT !.pc = "done",
                             !.pushed = Append(@, AssistantMessage(content)),
                             !.ret = [success |-> TRUE, response |-> content,
                                      toolsUsed |-> <<>>, toolResults |-> <<>>]]]
    /\ UNCHANGED <<tools, toolVars>>

\* mutant: the tool calls of the second response are executed as a new batch
FinalResponseRunningTools(t, content, toolCalls) ==
    /\ turn[t].pc = "awaitModel2"
    /\ LET rec == turn[t]
       IN  IF Len(toolCalls) > 0
           THEN /\ turn' = [turn EXCEPT ![t] =
                      [rec EXCEPT !.pc = "awaitTool", !.idx = 1, !.results = <<>>,
                                  !.response = [content |-> content,
                                                tool_calls |-> toolCalls],
                                  !.invoked = Append(@, 1)]]
                /\ UNCHANGED conversationHistory
           ELSE /\ conversationHistory' =
                      Append(conversationHistory, AssistantMessage(content))
                /\ turn' = [turn EXCEPT ![t] =
                      [rec EXCEPT !.pc = "done",
                                  !.pushed = Append(@, AssistantMessage(content)),
                                  !.ret = [success |-> TRUE, response |-> content,
                                           toolsUsed |-> <<>>, toolResults |-> <<>>]]]
    /\ UNCHANGED <<tools, toolVars>>

\* lines 104-117: the second response arrives; its tool calls, if any, are not read
FinalResponse(t, content, toolCalls) ==
    /\ turn[t].pc = "awaitModel2"
    /\ LET rec == turn[t]
       IN  /\ conversationHistory' =
                 Append(conversationHistory, AssistantMessage(content))
           /\ turn' = [turn EXCEPT ![t] =
                 [rec EXCEPT !.pc = "done",
                             !.finalResponse =
                                 [content |-> content, tool_calls |-> toolCalls],
                             !.pushed = Append(@, AssistantMessage(content)),
                             !.ret = [success |-> TRUE, response |-> content,
                                      toolsUsed |-> [i \in 1..Len(rec.response.tool_calls) |->
                                          rec.response.tool_calls[i].function.name],
                                      toolResults |-> [i \in 1..Len(rec.results) |->
                                          rec.results[i].result]]]]
    /\ UNCHANGED <<tools, toolVars>>

\* llm.js lines 51-54 and agent.js lines 135-142: a model call threw
ModelErrorDetail == <<"Request failed with status code 500">>

\* mutant: a failed model call is sent again, once
ModelFailsRetrying(t) ==
    /\ turn[t].pc \in {"awaitModel1", "awaitModel2"}
    /\ Len(turn[t].sent) <= 2
    /\ turn' = [turn EXCEPT ![t] =
          [@ EXCEPT !.sent = Append(@, turn[t].sent[Len(turn[t].sent)])]]
    /\ UNCHANGED <<conversationHistory, tools, toolVars>>

\* mutant: the failure is returned without the apology text
ModelFailsSilently(t) ==
    /\ turn[t].pc \in {"awaitModel1", "awaitModel2"}
    /\ turn' = [turn EXCEPT ![t] =
          [@ EXCEPT !.pc = "done",
                    !.ret = [success |-> FALSE, error |-> ModelErrorDetail,
                             response |-> Null]]]
    /\ UNCHANGED <<conversationHistory, tools, toolVars>>

\* mutant: the failed turn takes its messages back
ModelFailsRollingBack(t) ==
    /\ turn[t].pc \in {"awaitModel1", "awaitModel2"}
    /\ conversationHistory' = turn[t].history0
    /\ turn' = [turn EXCEPT ![t] =
          [@ EXCEPT !.pc = "done",
                    !.ret = [success |-> FALSE,
                             error |-> <<"LLM request failed: ">> \o ModelErrorDetail,
                             response |-> Apology]]]
    /\ UNCHANGED <<tools, toolVars>>

ModelFails(t) ==
    /\ turn[t].pc \in {"awaitModel1", "awaitModel2"}
    /\ turn' = [turn EXCEPT ![t] =
          [@ EXCEPT !.pc = "done",
                    !.ret = [success |-> FALSE,
                             error |-> <<"LLM request failed: ">> \o ModelErrorDetail,
                             response |-> Apology]]]
    /\ UNCHANGED <<conversationHistory, tools, toolVars>>

\* mutant: the reset keeps the first message of the history
clearHistoryKeepingFirst ==
    /\ conversationHistory # <<>>
    /\ conversationHistory' = <<conversationHistory[1]>>
    /\ UNCHANGED <<tools, turn, toolVars>>

\* getHistory (agent.js lines 195-197): a copy of the history
getHistory == [i \in 1..Len(conversationHistory) |-> conversationHistory[i]]

\* agent.js lines 189-192
clearHistory ==
    /\ conversationHistory # <<>>
    /\ conversationHistory' = <<>>
    /\ UNCHANGED <<tools, turn, toolVars>>

\* agent.js lines 25-28
registerTool(tool) ==
    /\ tools' = MapSet(tools, tool)
    /\ tools' # tools
    /\ UNCHANGED <<conversationHistory, turn, toolVars>>

(***************************************************************************)
(* JavaScript values of a tool's parameters, as JSON.parse gives them.     *)
(***************************************************************************)
Undefined == [type |-> "undefined"]
JsNull == [type |-> "null"]
Bool(b) == [type |-> "boolean", bool |-> b]
Num(n) == [type |-> "number", num |-> n]
Str(s) == [type |-> "string", str |-> s]
Obj(o) == [type |-> "object", fields |-> o]
Arr(a) == [type |-> "array", items |-> a]

EmptyObject == Obj([k \in {} |-> Undefined])

\* ToBoolean: what `if (v)` and `!v` test
Truthy(v) ==
    CASE v.type \in {"undefined", "null"} -> FALSE
      [] v.type = "boolean" -> v.bool
      [] v.type = "number" -> v.num # 0
      [] v.type = "string" -> v.str # ""
      [] OTHER -> TRUE

\* a destructuring default `{ name = d } = params`: it replaces undefined only
Default(v, d) == IF v = Undefined THEN d ELSE v

\* property access on an object: a missing property reads as undefined
Get(object, key) ==
    IF key \in DOMAIN object.fields THEN object.fields[key] ELSE Undefined

\* Object.keys(v) throws a TypeError for undefined and null
KeysThrows(v) == v.type \in {"undefined", "null"}

\* the number of own enumerable keys of v (0 for a boolean or a number)
KeyCount(v) ==
    CASE v.type = "object" -> Cardinality(DOMAIN v.fields)
      [] v.type = "array" -> Len(v.items)
      [] OTHER -> 0

TypeErrorMessage == <<"Cannot convert undefined or null to object">>

(***************************************************************************)
(* The collection and the driver's operations on it.  A document is a      *)
(* record with an _id; the store keeps the documents in insertion order,   *)
(* which is the order find returns them in.  Each operation takes effect   *)
(* at once, at the step where its promise resolves.                        *)
(***************************************************************************)
Min(a, b) == IF a < b THEN a ELSE b
Abs(n) == IF n < 0 THEN 0 - n ELSE n

SeedId(i) == [by |-> "seed", n |-> i]
Document(i, g) == [_id |-> SeedId(i), grp |-> g, val |-> 0]

\* a query filter {field: value, ...} matches the documents equal on each field
Matches(doc, filter) ==
    \A k \in DOMAIN filter.fields :
        k \in DOMAIN doc /\ doc[k] = filter.fields[k]

\* coll.find(filter).toArray()
Find(docs, filter) == SelectSeq(docs, LAMBDA d : Matches(d, filter))

\* coll.countDocuments(filter)
CountDocuments(docs, filter) == Len(Find(docs, filter))

\* mutant: the cursor's limit is not applied
CursorUnlimited(docs, n) == docs

\* cursor.limit(n): 0 means no limit, a negative n means |n| documents
CursorLimit(docs, n) ==
    IF n = 0 THEN docs ELSE SubSeq(docs, 1, Min(Abs(n), Len(docs)))

\* array.slice(0, n) for n >= 0
Slice(docs, n) == SubSeq(docs, 1, Min(n, Len(docs)))

\* coll.deleteMany(filter): every matching document goes
DeleteManyOp(docs, filter) == SelectSeq(docs, LAMBDA d : ~Matches(d, filter))

\* coll.deleteOne(filter): the first matching document goes
DeleteOneOp(docs, filter) ==
    IF \E i \in 1..Len(docs) : Matches(docs[i], filter)
    THEN LET first == CHOOSE i \in 1..Len(docs) :
                 /\ Matches(docs[i], filter)
                 /\ \A j \in 1..(i - 1) : ~Matches(docs[j], filter)
         IN  SubSeq(docs, 1, first - 1) \o SubSeq(docs, first + 1, Len(docs))
    ELSE docs

(***************************************************************************)
(* A call of a tool's execute.  The call record holds the arguments, the   *)
(* locals and the position:                                                *)
(*   idle      not called                                                  *)
(*   await...  suspended on a store operation                              *)
(*   done      execute resolved with `outcome`                             *)
(*   threw     execute rejected (an exception left the tool)               *)
(* store0 is the collection when the call began and ops the store          *)
(* operations the call has issued, in order.                               *)
(***************************************************************************)
Pending == [pending |-> TRUE]

IdleCall ==
    [pc |-> "idle", tool |-> "none", params |-> Undefined, count |-> 0,
     snapshot |-> <<>>, result |-> Pending, outcome |-> Pending,
     store0 |-> <<>>, ops |-> <<>>]

\* the catch block of every execute: the error becomes a failure outcome, which
\* reads params.operation and params.collection
FailureOutcome(params, message) ==
    [success |-> FALSE, error |-> message,
     operation |-> Get(params, "operation"), collection |-> Get(params, "collection")]

Begin(t, toolName, params) ==
    [IdleCall EXCEPT !.tool = toolName, !.params = params, !.store0 = store]

\* the call ends: with a failure outcome, or, when params is null, by throwing
\* out of the catch block, which reads params.operation
Fails(rec, message) ==
    IF rec.params.type = "null"
    THEN [rec EXCEPT !.pc = "threw"]
    ELSE [rec EXCEPT !.pc = "done", !.outcome = FailureOutcome(rec.params, message)]

Succeeds(rec, outcome) == [rec EXCEPT !.pc = "done", !.outcome = outcome]

\* the call issues a store operation and suspends on it
Awaits(rec, pc, op) == [rec EXCEPT !.pc = pc, !.ops = Append(@, op)]

NotConnectedMessage == <<"Database not connected">>
DestructureMessage == <<"Cannot destructure property 'collection' of 'params' as it is null.">>
UnsupportedMessage(operation) == <<"Unsupported operation: ", operation>>
StoreErrorMessage == <<"connection closed">>

(***************************************************************************)
(* MongoDeleteTool.execute (mongoDeleteTool.js lines 41-116).              *)
(***************************************************************************)
SafeModeLimit == 10
DeleteSnapshotLimit == 100

ConfirmationMessage ==
    <<"Deletion requires explicit confirmation. Set confirmDeletion: true">>
EmptyFilterMessage ==
    <<"Empty filter not allowed. To delete all documents, specify a filter like {_id: {$exists: true}}">>
SafeModeMessage(countToDelete) ==
    <<"Safe mode: Cannot delete ", countToDelete,
      " documents at once. Maximum 10 allowed. Set safeMode: false to override.">>

DeleteFilter(params) == Default(Get(params, "filter"), EmptyObject)
DeleteSafeMode(params) == Default(Get(params, "safeMode"), Bool(TRUE))
DeleteConfirmed(params) == Truthy(Default(Get(params, "confirmDeletion"), Bool(FALSE)))

\* mutant: the empty-filter check is made in safe mode only
DeleteFilterRejectedInSafeMode(params) ==
    /\ Truthy(DeleteSafeMode(params))
    /\ KeyCount(DeleteFilter(params)) = 0

\* line 59: Object.keys(filter).length === 0
DeleteFilterRejected(params) == KeyCount(DeleteFilter(params)) = 0

\* mutant: the count is compared with >= instead of >
SafeModeTripsFrom(countToDelete) == countToDelete >= SafeModeLimit

\* line 69
SafeModeTrips(countToDelete) == countToDelete > SafeModeLimit

\* lines 42-75, up to the first await
DeleteExecute(t, params) ==
    /\ call[t].pc = "idle"
    /\ LET rec == Begin(t, "delete_mongodb_data", params)
       IN  call' = [call EXCEPT ![t] =
             IF params.type = "null" THEN Fails(rec, DestructureMessage)
             ELSE IF ~isConnected THEN Fails(rec, NotConnectedMessage)
             ELSE IF ~DeleteConfirmed(params) THEN Fails(rec, ConfirmationMessage)
             ELSE IF KeysThrows(DeleteFilter(params)) THEN Fails(rec, TypeErrorMessage)
             ELSE IF DeleteFilterRejected(params) THEN Fails(rec, EmptyFilterMessage)
             ELSE IF Get(params, "operation") = Str("deleteMany")
                     /\ Truthy(DeleteSafeMode(params))
             THEN Awaits(rec, "awaitCount", "countDocuments")
             ELSE Awaits(rec, "awaitFind", "find")]
    /\ UNCHANGED <<store, isConnected, agentVars>>

\* mutant: the documents are removed before the safe-mode guard refuses
DeleteCountedDeleting(t) ==
    /\ call[t].pc = "awaitCount"
    /\ call[t].tool = "delete_mongodb_data"
    /\ LET rec == call[t]
           countToDelete == CountDocuments(store, DeleteFilter(rec.params))
       IN  /\ call' = [call EXCEPT ![t] =
                 IF SafeModeTrips(countToDelete)
                 THEN Fails([rec EXCEPT !.count = countToDelete],
                            SafeModeMessage(countToDelete))
                 ELSE Awaits([rec EXCEPT !.count = countToDelete], "awaitFind", "find")]
           /\ store' = IF SafeModeTrips(countToDelete)
                       THEN DeleteManyOp(store, DeleteFilter(rec.params))
                       ELSE store
    /\ UNCHANGED <<isConnected, agentVars>>

\* lines 68-75: countDocuments resolved
DeleteCounted(t) ==
    /\ call[t].pc = "awaitCount"
    /\ call[t].tool = "delete_mongodb_data"
    /\ LET rec == call[t]
           countToDelete == CountDocuments(store, DeleteFilter(rec.params))
       IN  call' = [call EXCEPT ![t] =
             IF SafeModeTrips(countToDelete)
             THEN Fails([rec EXCEPT !.count = countToDelete], SafeModeMessage(countToDelete))
             ELSE Awaits([rec EXCEPT !.count = countToDelete], "awaitFind", "find")]
    /\ UNCHANGED <<store, isConnected, agentVars>>

\* lines 75-94: the find of the documents to delete resolved
DeleteFound(t) ==
    /\ call[t].pc = "awaitFind"
    /\ call[t].tool = "delete_mongodb_data"
    /\ LET rec == call[t]
           operation == Get(rec.params, "operation")
           documentsToDelete ==
               CursorLimit(Find(store, DeleteFilter(rec.params)),
                           IF operation = Str("deleteOne") THEN 1 ELSE DeleteSnapshotLimit)
           rec2 == [rec EXCEPT !.snapshot = documentsToDelete]
       IN  call' = [call EXCEPT ![t] =
             IF Len(documentsToDelete) = 0
             THEN Succeeds(rec2,
                    [success |-> TRUE, operation |-> operation,
                     collection |-> Get(rec.params, "collection"), deletedCount |-> 0,
                     message |-> <<"No documents matched the filter criteria">>])
             ELSE IF operation = Str("deleteOne") THEN Awaits(rec2, "awaitDelete", "deleteOne")
             ELSE IF operation = Str("deleteMany") THEN Awaits(rec2, "awaitDelete", "deleteMany")
             ELSE Fails(rec2, UnsupportedMessage(operation))]
    /\ UNCHANGED <<store, isConnected, agentVars>>

\* lines 89-105: deleteOne or deleteMany resolved
DeleteDeleted(t) ==
    /\ call[t].pc = "awaitDelete"
    /\ call[t].tool = "delete_mongodb_data"
    /\ LET rec == call[t]
           filter == DeleteFilter(rec.params)
           operation == Get(rec.params, "operation")
           after == IF operation = Str("deleteOne")
                    THEN DeleteOneOp(store, filter) ELSE DeleteManyOp(store, filter)
           deletedCount == Len(store) - Len(after)
       IN  /\ store' = after
           /\ call' = [call EXCEPT ![t] =
                 Succeeds([rec EXCEPT !.result = [deletedCount |-> deletedCount]],
                    [success |-> TRUE, operation |-> operation,
                     collection |-> Get(rec.params, "collection"),
                     deletedCount |-> deletedCount,
                     documentsDeleted |-> Slice(rec.snapshot, deletedCount),
                     filter |-> filter])]
    /\ UNCHANGED <<isConnected, agentVars>>

(***************************************************************************)
(* The driver's update operations.  An update document is                  *)
(* {$set: {field: value}}; a replacement is a document without its _id.    *)
(***************************************************************************)
OperatorKeys == {"$set", "$inc"}

\* key.startsWith('$'), on the keys the documents of the model use
StartsWithDollar(key) == key \in OperatorKeys

\* Object.keys(update).some(key => key.startsWith('$'))
HasUpdateOperators(update) == \E k \in DOMAIN update.fields : StartsWithDollar(k)

\* the driver refuses an update document with a key that is no operator
OnlyUpdateOperators(update) ==
    /\ update.type = "object"
    /\ DOMAIN update.fields # {}
    /\ \A k \in DOMAIN update.fields : StartsWithDollar(k)

Overwrite(doc, fields) ==
    [k \in DOMAIN doc \cup DOMAIN fields |-> IF k \in DOMAIN fields THEN fields[k] ELSE doc[k]]

\* $set on one document
ApplyUpdate(doc, update) ==
    IF "$set" \in DOMAIN update.fields THEN Overwrite(doc, update.fields["$set"]) ELSE doc

\* the replacement takes the place of the document and keeps its _id
ApplyReplace(doc, update) == Overwrite([_id |-> doc._id], update.fields)

FirstMatch(docs, filter) ==
    CHOOSE i \in 1..Len(docs) :
        /\ Matches(docs[i], filter)
        /\ \A j \in 1..(i - 1) : ~Matches(docs[j], filter)

ServerId(docs) == [by |-> "server", n |-> Len(docs) + 1]

\* the document an upsert inserts: the filter's fields, then the update
UpsertDocument(docs, filter, operation, update) ==
    LET base == Overwrite([_id |-> ServerId(docs)], filter.fields)
    IN  IF operation = Str("replaceOne")
        THEN Overwrite([_id |-> ServerId(docs)], update.fields)
        ELSE ApplyUpdate(base, update)

\* coll.updateOne / updateMany / replaceOne (filter, update, options): the
\* collection afterwards and the counts the driver reports
UpdateOp(docs, operation, filter, update, upsert) ==
    LET hits == { i \in 1..Len(docs) : Matches(docs[i], filter) }
        targets == IF hits = {} THEN {}
                   ELSE IF operation = Str("updateMany") THEN hits
                   ELSE {FirstMatch(docs, filter)}
        new(i) == IF operation = Str("replaceOne")
                  THEN ApplyReplace(docs[i], update) ELSE ApplyUpdate(docs[i], update)
        after == [i \in 1..Len(docs) |-> IF i \in targets THEN new(i) ELSE docs[i]]
    IN  IF hits = {} /\ upsert
        THEN [docs |-> Append(docs, UpsertDocument(docs, filter, operation, update)),
              matchedCount |-> 0, modifiedCount |-> 0, upsertedCount |-> 1,
              upsertedId |-> ServerId(docs)]
        ELSE [docs |-> after,
              matchedCount |-> Cardinality(targets),
              modifiedCount |-> Cardinality({ i \in targets : after[i] # docs[i] }),
              upsertedCount |-> 0, upsertedId |-> JsNull]

(***************************************************************************)
(* MongoUpdateTool.execute (src/unnamed/part_002 lines 46-135).            *)
(***************************************************************************)
UpdateSnapshotLimit == 100
BulkUpdateLimit == 50
UpdatedDocumentsLimit == 10
OriginalDocumentsLimit == 10

UpdateFilterMessage ==
    <<"Filter is required and cannot be empty for update operations">>
BulkUpdateMessage(n) ==
    <<"Attempting to update ", n, " documents. Add allowBulkUpdate: true in options to proceed.">>
ReplaceOperatorsMessage ==
    <<"replaceOne operation cannot use update operators ($set, $inc, etc.). Use updateOne instead.">>
AtomicOperatorsMessage == <<"Update document requires atomic operators">>

UpdateOptions(params) == Default(Get(params, "options"), EmptyObject)

\* mutant: only a missing filter is refused, an empty one goes through
UpdateFilterMissing(filter) == ~Truthy(filter)

\* line 59: !filter || Object.keys(filter).length === 0
UpdateFilterRejected(filter) == ~Truthy(filter) \/ KeyCount(filter) = 0

\* line 88
BulkGuardTrips(documentsToUpdate, options) ==
    /\ Len(documentsToUpdate) > BulkUpdateLimit
    /\ ~Truthy(Get(options, "allowBulkUpdate"))

\* lines 47-67, up to the first await
UpdateExecute(t, params) ==
    /\ call[t].pc = "idle"
    /\ LET rec == Begin(t, "update_mongodb_data", params)
       IN  call' = [call EXCEPT ![t] =
             IF params.type = "null" THEN Fails(rec, DestructureMessage)
             ELSE IF ~isConnected THEN Fails(rec, NotConnectedMessage)
             ELSE IF UpdateFilterRejected(Get(params, "filter"))
             THEN Fails(rec, UpdateFilterMessage)
             ELSE Awaits(rec, "awaitFind", "find")]
    /\ UNCHANGED <<store, isConnected, agentVars>>

\* lines 67-105: the find of the documents to update resolved
UpdateFound(t) ==
    /\ call[t].pc = "awaitFind"
    /\ call[t].tool = "update_mongodb_data"
    /\ LET rec == call[t]
           operation == Get(rec.params, "operation")
           update == Get(rec.params, "update")
           options == UpdateOptions(rec.params)
           documentsToUpdate ==
               CursorLimit(Find(store, Get(rec.params, "filter")),
                           IF operation = Str("updateOne") THEN 1 ELSE UpdateSnapshotLimit)
           rec2 == [rec EXCEPT !.snapshot = documentsToUpdate]
       IN  call' = [call EXCEPT ![t] =
             IF Len(documentsToUpdate) = 0 /\ ~Truthy(Get(options, "upsert"))
             THEN Succeeds(rec2,
                    [success |-> TRUE, operation |-> operation,
                     collection |-> Get(rec.params, "collection"),
                     matchedCount |-> 0, modifiedCount |-> 0,
                     message |-> <<"No documents matched the filter criteria">>])
             ELSE IF operation = Str("updateOne")
             THEN IF OnlyUpdateOperators(update)
                  THEN Awaits(rec2, "awaitUpdate", "updateOne")
                  ELSE Fails(rec2, AtomicOperatorsMessage)
             ELSE IF operation = Str("updateMany")
             THEN IF BulkGuardTrips(documentsToUpdate, options)
                  THEN Fails(rec2, BulkUpdateMessage(Len(documentsToUpdate)))
                  ELSE IF OnlyUpdateOperators(update)
                  THEN Awaits(rec2, "awaitUpdate", "updateMany")
                  ELSE Fails(rec2, AtomicOperatorsMessage)
             ELSE IF operation = Str("replaceOne")
             THEN IF KeysThrows(update) THEN Fails(rec2, TypeErrorMessage)
                  ELSE IF HasUpdateOperators(update)
                  THEN Fails(rec2, ReplaceOperatorsMessage)
                  ELSE Awaits(rec2, "awaitUpdate", "replaceOne")
             ELSE Fails(rec2, UnsupportedMessage(operation))]
    /\ UNCHANGED <<store, isConnected, agentVars>>

\* lines 83-110: the update resolved; the updated documents are fetched
UpdateUpdated(t) ==
    /\ call[t].pc = "awaitUpdate"
    /\ call[t].tool = "update_mongodb_data"
    /\ LET rec == call[t]
           result == UpdateOp(store, Get(rec.params, "operation"),
                              Get(rec.params, "filter"), Get(rec.params, "update"),
                              Truthy(Get(UpdateOptions(rec.params), "upsert")))
       IN  /\ store' = result.docs
           /\ call' = [call EXCEPT ![t] =
                 Awaits([rec EXCEPT !.result =
                            [matchedCount |-> result.matchedCount,
                             modifiedCount |-> result.modifiedCount,
                             upsertedCount |-> result.upsertedCount,
                             upsertedId |-> result.upsertedId]],
                        "awaitRefetch", "find")]
    /\ UNCHANGED <<isConnected, agentVars>>

\* lines 110-124: the find of the updated documents resolved
UpdateRefetched(t) ==
    /\ call[t].pc = "awaitRefetch"
    /\ call[t].tool = "update_mongodb_data"
    /\ LET rec == call[t]
           operation == Get(rec.params, "operation")
           updatedDocuments ==
               CursorLimit(Find(store, Get(rec.params, "filter")),
                           IF operation = Str("updateOne") THEN 1 ELSE UpdatedDocumentsLimit)
       IN  call' = [call EXCEPT ![t] =
             Succeeds(rec,
                [success |-> TRUE, operation |-> operation,
                 collection |-> Get(rec.params, "collection"),
                 matchedCount |-> rec.result.matchedCount,
                 modifiedCount |-> rec.result.modifiedCount,
                 upsertedCount |-> rec.result.upsertedCount,
                 upsertedId |-> rec.result.upsertedId,
                 originalDocuments |-> Slice(rec.snapshot, OriginalDocumentsLimit),
                 updatedDocuments |-> updatedDocuments,
                 filter |-> Get(rec.params, "filter"),
                 update |-> Get(rec.params, "update")])]
    /\ UNCHANGED <<store, isConnected, agentVars>>

(***************************************************************************)
(* MongoTool.execute (mongoTool.js lines 42-109).                          *)
(***************************************************************************)
DefaultLimit == 10
FindLimitCap == 100

FieldRequiredMessage == <<"Field parameter required for distinct operation">>
PipelineMessage ==
    <<"Query must be an aggregation pipeline array for aggregate operation">>
LimitStageMessage == <<"the limit must be positive">>

\* ToNumber, on the values a limit takes here
ToNumber(v) ==
    CASE v.type = "number" -> v.num
      [] v.type = "boolean" -> IF v.bool THEN 1 ELSE 0
      [] OTHER -> 0

\* Math.min(limit, 100)
MathMin(limit, cap) == Min(ToNumber(limit), cap)

\* the documents a pipeline of $match stages lets through
RECURSIVE Pipeline(_, _)
Pipeline(docs, stages) ==
    IF stages = <<>> THEN docs
    ELSE Pipeline(Find(docs, Obj(Head(stages).fields["$match"])), Tail(stages))

\* the values of a field, each once, in the order they first occur
Distinct(docs, field) ==
    LET first == SelectSeq([i \in 1..Len(docs) |-> i],
                           LAMBDA i : \A j \in 1..(i - 1) : docs[j][field] # docs[i][field])
    IN  [k \in 1..Len(first) |-> docs[first[k]][field]]

QueryOf(params) == Default(Get(params, "query"), EmptyObject)
LimitOf(params) == Default(Get(params, "limit"), Num(DefaultLimit))

\* mutant: only a null field is refused, an absent one goes through
FieldIsNull(params) == Get(params, "field") = JsNull

\* line 73: !params.field
FieldMissing(params) == ~Truthy(Get(params, "field"))

\* lines 43-83, up to the await of the operation
QueryExecute(t, params) ==
    /\ call[t].pc = "idle"
    /\ LET rec == Begin(t, "fetch_mongodb_data", params)
           operation == Get(params, "operation")
       IN  call' = [call EXCEPT ![t] =
             IF params.type = "null" THEN Fails(rec, DestructureMessage)
             ELSE IF ~isConnected THEN Fails(rec, NotConnectedMessage)
             ELSE IF operation = Str("find") THEN Awaits(rec, "awaitQuery", "find")
             ELSE IF operation = Str("findOne") THEN Awaits(rec, "awaitQuery", "findOne")
             ELSE IF operation = Str("count") THEN Awaits(rec, "awaitQuery", "countDocuments")
             ELSE IF operation = Str("distinct")
             THEN IF FieldMissing(params)
                  THEN Fails(rec, FieldRequiredMessage)
                  ELSE Awaits(rec, "awaitQuery", "distinct")
             ELSE IF operation = Str("aggregate")
             THEN IF QueryOf(params).type # "array"
                  THEN Fails(rec, PipelineMessage)
                  ELSE Awaits(rec, "awaitQuery", "aggregate")
             ELSE Fails(rec, UnsupportedMessage(operation))]
    /\ UNCHANGED <<store, isConnected, agentVars>>

\* what the awaited operation resolves with
QueryResult(docs, params) ==
    LET operation == Get(params, "operation")
        query == QueryOf(params)
        limit == LimitOf(params)
    IN  CASE operation = Str("find") ->
               Arr(CursorLimit(Find(docs, query), MathMin(limit, FindLimitCap)))
          [] operation = Str("findOne") ->
               IF Find(docs, query) = <<>> THEN JsNull ELSE Obj(Head(Find(docs, query)))
          [] operation = Str("count") -> Num(CountDocuments(docs, query))
          [] operation = Str("distinct") ->
               Arr(Distinct(Find(docs, query), Get(params, "field").str))
          [] OTHER ->
               Arr(Slice(Pipeline(docs, query.items), ToNumber(limit)))

\* the server refuses a $limit stage that is not a positive number
LimitStageRefused(params) ==
    /\ Get(params, "operation") = Str("aggregate")
    /\ ~(LimitOf(params).type = "number" /\ LimitOf(params).num > 0)

\* lines 58-98: the operation resolved
QueryResolved(t) ==
    /\ call[t].pc = "awaitQuery"
    /\ LET rec == call[t]
           result == QueryResult(store, rec.params)
       IN  call' = [call EXCEPT ![t] =
             IF LimitStageRefused(rec.params) THEN Fails(rec, LimitStageMessage)
             ELSE Succeeds([rec EXCEPT !.result = result],
                    [success |-> TRUE,
                     operation |-> Get(rec.params, "operation"),
                     collection |-> Get(rec.params, "collection"),
                     count |-> IF result.type = "array" THEN Len(result.items)
                               ELSE IF Truthy(result) THEN 1 ELSE 0,
                     data |-> result])]
    /\ UNCHANGED <<store, isConnected, agentVars>>

(***************************************************************************)
(* MongoInsertTool.execute (mongoInsertTool.js lines 36-105).              *)
(***************************************************************************)
MaxInsertDocs == 100

ArrayDataMessage == <<"Use insertMany operation for array data">>
NotArrayMessage == <<"insertMany requires an array of documents">>
TooManyMessage == <<"Cannot insert more than 100 documents at once">>
ReadIdMessage == <<"Cannot read properties of undefined (reading '_id')">>
EmptyBatchMessage == <<"Invalid BulkOperation, Batch cannot be empty">>
DuplicateKeyMessage == <<"E11000 duplicate key error">>

\* new ObjectId(): the i-th one call t makes
ObjectId(t, i) == [by |-> "tool", slot |-> t, n |-> i]

\* the _id the driver gives a document that has none
DriverId(t, i) == [by |-> "driver", slot |-> t, n |-> i]

\* doc._id ? doc : { ...doc, _id: new ObjectId() }
WithObjectId(t, i, doc) ==
    IF "_id" \in DOMAIN doc THEN doc ELSE Overwrite(doc, [_id |-> ObjectId(t, i)])

WithDriverId(t, i, doc) ==
    IF "_id" \in DOMAIN doc THEN doc ELSE Overwrite(doc, [_id |-> DriverId(t, i)])

\* mutant: the guard lets one document more through
AboveLimitPlusOne(data) == Len(data.items) > MaxInsertDocs + 1

\* line 69: data.length > 100
AboveLimit(data) == Len(data.items) > MaxInsertDocs

\* mutant: only an array with elements counts as an array
IsNonEmptyArray(data) == data.type = "array" /\ Len(data.items) > 0

\* Array.isArray(data), lines 53 and 65
IsArray(data) == data.type = "array"

\* lines 58-60 and 74-78: the documents handed to the driver
ProcessedData(t, params) ==
    LET data == Get(params, "data")
        generateId == Truthy(Default(Get(params, "generateId"), Bool(TRUE)))
    IN  IF ~generateId THEN data
        ELSE IF data.type = "array"
        THEN Arr([i \in 1..Len(data.items) |-> WithObjectId(t, i, data.items[i])])
        ELSE Obj(WithObjectId(t, 1, data.fields))

\* lines 37-80, up to the await of the insert
InsertExecute(t, params) ==
    /\ call[t].pc = "idle"
    /\ LET rec == Begin(t, "insert_mongodb_data", params)
           operation == Get(params, "operation")
           data == Get(params, "data")
       IN  call' = [call EXCEPT ![t] =
             IF params.type = "null" THEN Fails(rec, DestructureMessage)
             ELSE IF ~isConnected THEN Fails(rec, NotConnectedMessage)
             ELSE IF operation = Str("insertOne")
             THEN IF IsArray(data) THEN Fails(rec, ArrayDataMessage)
                  ELSE IF data.type # "object" THEN Fails(rec, ReadIdMessage)
                  ELSE Awaits([rec EXCEPT !.result = ProcessedData(t, params)],
                              "awaitInsert", "insertOne")
             ELSE IF operation = Str("insertMany")
             THEN IF ~IsArray(data) THEN Fails(rec, NotArrayMessage)
                  ELSE IF AboveLimit(data) THEN Fails(rec, TooManyMessage)
                  ELSE IF Len(data.items) = 0
                  THEN Fails([rec EXCEPT !.ops = Append(@, "insertMany")],
                             EmptyBatchMessage)
                  ELSE Awaits([rec EXCEPT !.result = ProcessedData(t, params)],
                              "awaitInsert", "insertMany")
             ELSE Fails(rec, UnsupportedMessage(operation))]
    /\ UNCHANGED <<store, isConnected, agentVars>>

\* the documents of `items` that an ordered insert stores: those before the
\* first one whose _id the collection or an earlier document already has
Inserted(docs, items) ==
    LET taken(j) == \/ \E i \in 1..Len(docs) : docs[i]._id = items[j]._id
                    \/ \E i \in 1..(j - 1) : items[i]._id = items[j]._id
        clash == { j \in 1..Len(items) : taken(j) }
    IN  IF clash = {} THEN items
        ELSE SubSeq(items, 1, (CHOOSE j \in clash : \A k \in clash : j <= k) - 1)

\* lines 62-94: the insert resolved, or stopped at a duplicate _id
InsertInserted(t) ==
    /\ call[t].pc = "awaitInsert"
    /\ LET rec == call[t]
           operation == Get(rec.params, "operation")
           processedData == rec.result
           items == IF processedData.type = "array" THEN processedData.items
                    ELSE <<processedData.fields>>
           sent == [i \in 1..Len(items) |-> WithDriverId(t, i, items[i])]
           stored == Inserted(store, sent)
       IN  /\ store' = store \o stored
           /\ call' = [call EXCEPT ![t] =
                 IF Len(stored) < Len(sent) THEN Fails(rec, DuplicateKeyMessage)
                 ELSE Succeeds(rec,
                        [success |-> TRUE, operation |-> operation,
                         collection |-> Get(rec.params, "collection"),
                         insertedCount |-> Len(stored),
                         insertedIds |-> [i \in 1..Len(stored) |-> stored[i]._id],
                         data |-> processedData])]
    /\ UNCHANGED <<isConnected, agentVars>>

(***************************************************************************)
(* A store operation rejects (the connection drops, the server refuses     *)
(* it): the collection is as it was, and the catch block of execute makes  *)
(* the error a failure outcome.                                            *)
(***************************************************************************)
AwaitingStore ==
    {"awaitCount", "awaitFind", "awaitDelete", "awaitUpdate", "awaitRefetch",
     "awaitQuery", "awaitInsert"}

StoreOperationFails(t) ==
    /\ call[t].pc \in AwaitingStore
    /\ call' = [call EXCEPT ![t] = Fails(@, StoreErrorMessage)]
    /\ UNCHANGED <<store, isConnected, agentVars>>

(***************************************************************************)
(* The orchestrator's specification: MaxTurns calls of processMessage that *)
(* may overlap at their awaits, and clearHistory at any time.              *)
(***************************************************************************)
AgentInit ==
    /\ conversationHistory = <<>>
    /\ tools = ConstructedTools
    /\ turn = [t \in Turns |-> IdleTurn]

Init ==
    /\ AgentInit
    /\ store = <<>>
    /\ isConnected = TRUE
    /\ call = [t \in Turns |-> IdleCall]

\* the batches of the overlapping turns: each call names a registered tool with
\* arguments that parse, or a tool that is not registered
OverlapBatches(t) ==
    UNION { { [i \in 1..k |-> ToolCall(t, i, ns[i], ArgObject)] :
                ns \in [1..k -> CallNames] } : k \in 0..MaxCalls }

Next ==
    \/ \E t \in Turns, m \in UserTexts, c \in ConversationIds : StartTurn(t, m, c)
    \/ \E t \in Turns : \E b \in OverlapBatches(t) : FirstResponse(t, Null, b)
    \/ \E t \in Turns, o \in ToolOutcomes : ToolReturns(t, o)
    \/ \E t \in Turns : ToolThrows(t, ThrownMessage)
    \/ \E t \in Turns, c \in Contents \ {Null} : \E b \in FinalBatches(t) : FinalResponse(t, c, b)
    \/ \E t \in Turns : ModelFails(t)
    \/ clearHistory

Spec == Init /\ [][Next]_vars

(***************************************************************************)
(* The /chat route (index.js lines 52-90): every request, whatever its     *)
(* conversationId, goes to processMessage of the one agent.  The callers'  *)
(* messages differ, so that a message tells which caller sent it.          *)
(***************************************************************************)
CallerText(conversationId) == <<"A question of caller ", conversationId>>

CallerBatches(t) ==
    {<<>>, <<ToolCall(t, 1, "fetch_mongodb_data", ArgObject)>>}

CallersNext ==
    \/ \E t \in Turns, c \in ConversationIds : StartTurn(t, CallerText(c), c)
    \/ \E t \in Turns : \E b \in CallerBatches(t) : FirstResponse(t, Null, b)
    \/ \E t \in Turns, o \in ToolOutcomes : ToolReturns(t, o)
    \/ \E t \in Turns : ToolThrows(t, ThrownMessage)
    \/ \E t \in Turns, c \in Contents \ {Null} : FinalResponse(t, c, <<>>)
    \/ \E t \in Turns : ModelFails(t)

CallersSpec == Init /\ [][CallersNext]_vars

(***************************************************************************)
(* The registry on its own: registrations after construction, under new    *)
(* names and under names already present.                                  *)
(***************************************************************************)
RegistryInit == Init

RegistryNext == \E tool \in LaterTools : registerTool(tool)

RegistrySpec == RegistryInit /\ [][RegistryNext]_vars

(***************************************************************************)
(* One call of processMessage on its own, on a history drawn by the        *)
(* initial state, with every kind of response, tool call and tool outcome. *)
(***************************************************************************)
EarlierExchange ==
    <<UserMessage(<<"Hello">>), AssistantMessage(<<"Hello, how can I help?">>)>>

InitialHistories == {<<>>, EarlierExchange}

TurnInit ==
    /\ conversationHistory \in InitialHistories
    /\ tools = ConstructedTools
    /\ turn = [t \in Turns |-> IdleTurn]
    /\ store = <<>>
    /\ isConnected = TRUE
    /\ call = [t \in Turns |-> IdleCall]

TurnNext ==
    \/ \E m \in UserTexts, c \in ConversationIds : StartTurn(1, m, c)
    \/ \E c \in Contents : \E b \in Batches(1) : FirstResponse(1, c, b)
    \/ \E o \in ToolOutcomes : ToolReturns(1, o)
    \/ ToolThrows(1, ThrownMessage)
    \/ \E c \in Contents : \E b \in FinalBatches(1) : FinalResponse(1, c, b)
    \/ ModelFails(1)

TurnSpec == TurnInit /\ [][TurnNext]_vars

(***************************************************************************)
(* One call of processMessage when every model call and every tool call it *)
(* awaits eventually returns or fails: the call is not left suspended.     *)
(***************************************************************************)
Resumes ==
    \/ \E c \in Contents : \E b \in Batches(1) : FirstResponse(1, c, b)
    \/ \E o \in ToolOutcomes : ToolReturns(1, o)
    \/ ToolThrows(1, ThrownMessage)
    \/ \E c \in Contents : \E b \in FinalBatches(1) : FinalResponse(1, c, b)
    \/ ModelFails(1)

FairTurnSpec == TurnInit /\ [][TurnNext]_vars /\ WF_vars(Resumes)

(***************************************************************************)
(* One call of processMessage and resets of the history at any of its      *)
(* awaits, before it and after it.                                         *)
(***************************************************************************)
ResetNext == TurnNext \/ clearHistory

ResetSpec == TurnInit /\ [][ResetNext]_vars

(***************************************************************************)
(* One call of a store tool on a collection drawn by the initial state:    *)
(* up to MaxMatching documents of group "a" between two of group "b".      *)
(***************************************************************************)
MaxMatching == 101

Users == Str("users")
FilterA == Obj([grp |-> "a"])

\* the sizes around the guards' limits, 0, 1 and the largest
MatchCounts ==
    { k \in 0..MaxMatching :
        \/ k <= 1
        \/ k \in (SafeModeLimit - 1)..(SafeModeLimit + 1)
        \/ k \in (BulkUpdateLimit - 1)..(BulkUpdateLimit + 1)
        \/ k >= DeleteSnapshotLimit - 1 }

InitialStore(k) ==
    <<Document(0, "b")>> \o [i \in 1..k |-> Document(i, "a")] \o <<Document(k + 1, "b")>>

DeleteParams ==
    { Obj([collection |-> Users, operation |-> op, filter |-> f,
           confirmDeletion |-> c, safeMode |-> sm]) :
        op \in {Str("deleteOne"), Str("deleteMany"), Str("drop")},
        f \in {Undefined, JsNull, EmptyObject, FilterA},
        c \in {Undefined, Bool(FALSE), Bool(TRUE), Str("false")},
        sm \in {Undefined, Bool(TRUE), Bool(FALSE)} }
    \cup {JsNull}

SetVal == Obj(("$set" :> [val |-> 1]))
Replacement == Obj([grp |-> "a", val |-> 1])
SetAndField == Obj(("$set" :> [val |-> 1]) @@ [grp |-> "a"])

UpdateParams ==
    { Obj([collection |-> Users, operation |-> op, filter |-> f,
           update |-> u, options |-> o]) :
        op \in {Str("updateOne"), Str("updateMany"), Str("replaceOne"), Str("drop")},
        f \in {Undefined, JsNull, EmptyObject, FilterA},
        u \in {Undefined, SetVal, Replacement, SetAndField},
        o \in {Undefined, Obj([upsert |-> Bool(TRUE)]),
               Obj([allowBulkUpdate |-> Bool(TRUE)])} }
    \cup {JsNull}

Limits ==
    {Undefined, JsNull} \cup
    { Num(n) : n \in {0 - 5, 0, 5, FindLimitCap, FindLimitCap + 1, FindLimitCap + 50} }

MatchA == Obj(("$match" :> [grp |-> "a"]))

QueryParams ==
    { Obj([collection |-> Users, operation |-> op, query |-> q, limit |-> l]) :
        op \in {Str("find"), Str("findOne"), Str("count"), Str("drop")},
        q \in {Undefined, EmptyObject, FilterA}, l \in Limits }
    \cup { Obj([collection |-> Users, operation |-> Str("distinct"), query |-> q,
               field |-> f]) :
             q \in {Undefined, FilterA}, f \in {Undefined, Str(""), Str("grp")} }
    \cup { Obj([collection |-> Users, operation |-> Str("aggregate"), query |-> q,
               limit |-> l]) :
             q \in {Undefined, FilterA, Arr(<<>>), Arr(<<MatchA>>)}, l \in Limits }
    \cup {JsNull}

CallerId(i) == [by |-> "caller", n |-> i]
NewDocument(i) == [grp |-> "a", val |-> i]
NewDocumentWithId(i) == [_id |-> CallerId(i), grp |-> "a", val |-> i]

InsertSizes == {0, 1, 2, MaxInsertDocs, MaxInsertDocs + 1}

InsertData ==
    {Undefined, Obj(NewDocument(1)), Obj(NewDocumentWithId(1))}
    \cup { Arr([i \in 1..n |-> NewDocument(i)]) : n \in InsertSizes }
    \cup { Arr([i \in 1..n |-> NewDocumentWithId(i)]) : n \in InsertSizes }
    \cup { Arr(<<NewDocumentWithId(1), NewDocumentWithId(2), NewDocumentWithId(1)>>) }

InsertParams ==
    { Obj([collection |-> Users, operation |-> op, data |-> d, generateId |-> g]) :
        op \in {Str("insertOne"), Str("insertMany"), Str("drop")},
        d \in InsertData,
        g \in {Undefined, Bool(TRUE), Bool(FALSE)} }
    \cup {JsNull}

ToolInit ==
    /\ AgentInit
    /\ \E k \in MatchCounts : store = InitialStore(k)
    /\ isConnected \in BOOLEAN
    /\ call = [t \in Turns |-> IdleCall]

ToolNext ==
    \/ \E p \in DeleteParams : DeleteExecute(1, p)
    \/ DeleteCounted(1)
    \/ DeleteFound(1)
    \/ DeleteDeleted(1)
    \/ \E p \in UpdateParams : UpdateExecute(1, p)
    \/ UpdateFound(1)
    \/ UpdateUpdated(1)
    \/ UpdateRefetched(1)
    \/ \E p \in QueryParams : QueryExecute(1, p)
    \/ QueryResolved(1)
    \/ \E p \in InsertParams : InsertExecute(1, p)
    \/ InsertInserted(1)
    \/ StoreOperationFails(1)

ToolSpec == ToolInit /\ [][ToolNext]_vars

(***************************************************************************)
(* Two tool calls of overlapping turns on the same collection: a confirmed *)
(* deleteMany in slot 1 and an insert in slot 2.  Each call suspends at    *)
(* its store operations, where the other may run.                          *)
(***************************************************************************)
RaceCounts == 0..(SafeModeLimit + 1)

RaceDeletes ==
    { p \in DeleteParams \ {JsNull} :
        /\ Get(p, "operation") = Str("deleteMany")
        /\ Get(p, "filter") = FilterA
        /\ Get(p, "confirmDeletion") = Bool(TRUE) }

RaceInserts ==
    { p \in InsertParams \ {JsNull} :
        /\ Get(p, "operation") \in {Str("insertOne"), Str("insertMany")}
        /\ \/ Get(p, "data").type = "object"
           \/ Get(p, "data").type = "array" /\ Len(Get(p, "data").items) \in 1..2 }

RaceInit ==
    /\ AgentInit
    /\ \E k \in RaceCounts : store = InitialStore(k)
    /\ isConnected = TRUE
    /\ call = [t \in Turns |-> IdleCall]

RaceNext ==
    \/ \E p \in RaceDeletes : DeleteExecute(1, p)
    \/ DeleteCounted(1)
    \/ DeleteFound(1)
    \/ DeleteDeleted(1)
    \/ \E p \in RaceInserts : InsertExecute(2, p)
    \/ InsertInserted(2)
    \/ \E t \in {1, 2} : StoreOperationFails(t)

RaceSpec == RaceInit /\ [][RaceNext]_vars

(***************************************************************************)
(* Properties of one turn.                                                 *)
(***************************************************************************)
Calls(t) == turn[t].response.tool_calls

\* the turn has returned success: both of its model calls (or its only one) succeeded
Succeeded(t) == turn[t].pc = "done" /\ turn[t].ret.success

\* executeToolCalls has returned for the batch of turn t
BatchOver(t) == Len(Calls(t)) > 0 /\ turn[t].idx = Len(Calls(t)) + 1

HasCalls(message) == "tool_calls" \in DOMAIN message

\* C1: a turn whose model calls all succeed appends exactly 2 messages (user,
\* assistant) when the first response carries no tool call, and exactly N+3
\* messages when it carries N >= 1 tool calls, in the order user, assistant
\* with the N calls, N tool messages, final assistant; with no other writer
\* the history is the history before the turn followed by these messages.
C1_AppendsExactly ==
    \A t \in Turns :
        Succeeded(t) =>
            LET N == Len(Calls(t))
                p == turn[t].pushed
            IN  /\ Len(p) = IF N = 0 THEN 2 ELSE N + 3
                /\ p[1].role = "user" /\ p[1].content = turn[t].userMessage
                /\ p[Len(p)].role = "assistant" /\ ~HasCalls(p[Len(p)])
                /\ N > 0 =>
                      /\ p[2].role = "assistant" /\ HasCalls(p[2])
                      /\ p[2].tool_calls = Calls(t)
                      /\ \A i \in 1..N : p[2 + i].role = "tool"
                /\ (\A u \in Turns \ {t} : turn[u].pc = "idle") =>
                      conversationHistory = turn[t].history0 \o p

\* a successful turn with a batch of MaxCalls tool calls has appended MaxCalls + 3 messages
C1_Witness ==
    \E t \in Turns :
        /\ Succeeded(t)
        /\ Len(Calls(t)) = MaxCalls
        /\ Len(turn[t].pushed) = MaxCalls + 3
        /\ Len(conversationHistory) = Len(turn[t].history0) + MaxCalls + 3

\* the calls of the batch whose tool.execute was reached, and those that returned
Invoked(t) == { turn[t].invoked[k] : k \in 1..Len(turn[t].invoked) }
Returned(t) == { turn[t].returned[k].idx : k \in 1..Len(turn[t].returned) }

\* call i of the batch fails before its tool is reached
FailsEarly(t, i) ==
    \/ ~JSONparse(Calls(t)[i].function.arguments).ok
    \/ Calls(t)[i].function.name \notin DOMAIN tools

\* C2: whatever calls of a batch of N fail (unregistered tool, unparsable
\* arguments, a tool that throws, a success:false outcome), executeToolCalls
\* gives exactly N results, the i-th with the id of the i-th request; a call
\* whose tool returned has exactly that outcome as its result; and every call
\* that names a registered tool with parsable arguments had its tool invoked
\* exactly once, whatever happened to the calls before it.
C2_OneResultPerCall ==
    \A t \in Turns :
        BatchOver(t) =>
            LET N == Len(Calls(t))
                r == turn[t].results
            IN  /\ Len(r) = N
                /\ \A i \in 1..N :
                      /\ r[i].tool_call_id = Calls(t)[i].id
                      /\ r[i].tool_name = Calls(t)[i].function.name
                      /\ (i \in Invoked(t)) = ~FailsEarly(t, i)
                      /\ i \notin Returned(t) => ~r[i].result.success
                /\ \A k \in 1..Len(turn[t].returned) :
                      r[turn[t].returned[k].idx].result = turn[t].returned[k].outcome
                /\ \A j, k \in 1..Len(turn[t].invoked) :
                      turn[t].invoked[j] = turn[t].invoked[k] => j = k

\* a batch of two: the first call fails (its tool throws, is not registered, or
\* its arguments do not parse), the second is executed and reports success
C2_Witness ==
    \E t \in Turns :
        /\ BatchOver(t)
        /\ Len(Calls(t)) >= 2
        /\ ~turn[t].results[1].result.success
        /\ 2 \in Returned(t)
        /\ turn[t].results[2].result = OutcomeSuccess
        /\ turn[t].results[2].tool_call_id = Calls(t)[2].id

(***************************************************************************)
(* Properties of the delete tool.                                          *)
(***************************************************************************)
\* turn slot t holds a call of the delete tool with an object of arguments
\* whose operation is deleteOne or deleteMany
DeleteCall(t) ==
    /\ call[t].tool = "delete_mongodb_data"
    /\ call[t].params.type = "object"
    /\ Get(call[t].params, "operation") \in {Str("deleteOne"), Str("deleteMany")}

Returned_(t) == call[t].pc = "done"
ReturnedFailure(t) == call[t].pc = "done" /\ ~call[t].outcome.success
ReturnedSuccess(t) == call[t].pc = "done" /\ call[t].outcome.success

\* a store operation of the call was rejected by the store
StoreFailed(t) == ReturnedFailure(t) /\ call[t].outcome.error = StoreErrorMessage

Docs(seq) == { seq[i] : i \in 1..Len(seq) }

\* C3: a deleteOne or deleteMany call whose confirmDeletion is not exactly
\* true (absent, false or any other value) returns a failure outcome at once
\* and removes no document, whatever the filter and safeMode.
C3_UnconfirmedAlwaysFails ==
    \A t \in Turns :
        (DeleteCall(t) /\ Get(call[t].params, "confirmDeletion") # Bool(TRUE)) =>
            /\ ReturnedFailure(t)
            /\ store = call[t].store0

\* C4: a deleteOne or deleteMany call with an empty filter ({} or absent)
\* returns a failure outcome at once, issues no store operation and removes no
\* document, also with confirmDeletion true and safeMode false.
C4_EmptyFilterAlwaysFails ==
    \A t \in Turns :
        (DeleteCall(t) /\ Get(call[t].params, "filter") \in {Undefined, EmptyObject}) =>
            /\ ReturnedFailure(t)
            /\ call[t].ops = <<>>
            /\ store = call[t].store0

\* a confirmed deleteMany with safe mode off and an empty filter, on a connected
\* collection of at least DeleteSnapshotLimit documents, was rejected for its filter
C4_Witness ==
    \E t \in Turns :
        /\ DeleteCall(t)
        /\ Get(call[t].params, "operation") = Str("deleteMany")
        /\ Get(call[t].params, "filter") = EmptyObject
        /\ Get(call[t].params, "confirmDeletion") = Bool(TRUE)
        /\ Get(call[t].params, "safeMode") = Bool(FALSE)
        /\ isConnected
        /\ Len(store) >= DeleteSnapshotLimit
        /\ ReturnedFailure(t)
        /\ call[t].outcome.error = EmptyFilterMessage

\* a confirmed deleteMany with a non-empty filter on a connected collection
ConfirmedDeleteMany(t) ==
    /\ DeleteCall(t)
    /\ Get(call[t].params, "operation") = Str("deleteMany")
    /\ Get(call[t].params, "confirmDeletion") = Bool(TRUE)
    /\ Get(call[t].params, "filter").type = "object"
    /\ KeyCount(Get(call[t].params, "filter")) > 0
    /\ isConnected

\* the documents of the collection that matched the call's filter when it began
MatchedAtStart(t) ==
    { d \in Docs(call[t].store0) : Matches(d, DeleteFilter(call[t].params)) }

\* C5: a confirmed deleteMany with a non-empty filter matching k documents,
\* when no store operation is rejected: in safe mode (safeMode true or
\* omitted) it fails with the error naming k and removes nothing when
\* k >= 11, and succeeds when k <= 10; with safeMode false it succeeds,
\* deletedCount is k and exactly the k matching documents are removed.
C5_SafeModeGuard ==
    \A t \in Turns :
        ConfirmedDeleteMany(t) =>
            LET k == Cardinality(MatchedAtStart(t))
                safeMode == Get(call[t].params, "safeMode")
            IN  /\ (safeMode \in {Undefined, Bool(TRUE)} /\ k >= SafeModeLimit + 1) =>
                      /\ store = call[t].store0
                      /\ ~ReturnedSuccess(t)
                      /\ (Returned_(t) /\ ~StoreFailed(t)) =>
                            call[t].outcome.error = SafeModeMessage(k)
                /\ (/\ safeMode \in {Undefined, Bool(TRUE)} /\ k <= SafeModeLimit
                    /\ Returned_(t) /\ ~StoreFailed(t)) =>
                          /\ ReturnedSuccess(t)
                          /\ call[t].outcome.deletedCount = k
                          /\ Docs(store) = Docs(call[t].store0) \ MatchedAtStart(t)
                /\ (safeMode = Bool(FALSE) /\ Returned_(t) /\ ~StoreFailed(t)) =>
                          /\ ReturnedSuccess(t)
                          /\ call[t].outcome.deletedCount = k
                          /\ Len(store) = Len(call[t].store0) - k
                          /\ Docs(store) = Docs(call[t].store0) \ MatchedAtStart(t)

\* in safe mode a filter matching SafeModeLimit + 1 documents was refused, and
\* the error names that number
C5_Witness ==
    \E t \in Turns :
        /\ ConfirmedDeleteMany(t)
        /\ Get(call[t].params, "safeMode") = Undefined
        /\ Cardinality(MatchedAtStart(t)) = SafeModeLimit + 1
        /\ ReturnedFailure(t)
        /\ call[t].outcome.error = SafeModeMessage(SafeModeLimit + 1)
        /\ call[t].ops = <<"countDocuments">>

(***************************************************************************)
(* Properties of the update tool.                                          *)
(***************************************************************************)
\* turn slot t holds a call of the update tool with an object of arguments
\* whose operation is updateOne, updateMany or replaceOne
UpdateCall(t) ==
    /\ call[t].tool = "update_mongodb_data"
    /\ call[t].params.type = "object"
    /\ Get(call[t].params, "operation") \in
           {Str("updateOne"), Str("updateMany"), Str("replaceOne")}

\* C6: an updateOne, updateMany or replaceOne call whose filter is absent
\* (missing or null) or empty returns a failure outcome at once, issues no
\* store operation and modifies no document, whatever the update document
\* and the options (upsert included).
C6_EmptyFilterNeverUpdates ==
    \A t \in Turns :
        (UpdateCall(t) /\ Get(call[t].params, "filter") \in {Undefined, JsNull, EmptyObject}) =>
            /\ ReturnedFailure(t)
            /\ call[t].ops = <<>>
            /\ store = call[t].store0

\* an updateMany with an empty filter, a well-formed update and upsert set,
\* on a connected collection, was rejected for its filter
C6_Witness ==
    \E t \in Turns :
        /\ UpdateCall(t)
        /\ Get(call[t].params, "operation") = Str("updateMany")
        /\ Get(call[t].params, "filter") = EmptyObject
        /\ Get(call[t].params, "update") = SetVal
        /\ Truthy(Get(UpdateOptions(call[t].params), "upsert"))
        /\ isConnected
        /\ Len(store) > 0
        /\ ReturnedFailure(t)
        /\ call[t].outcome.error = UpdateFilterMessage

\* an updateMany with a non-empty filter on a connected collection
UpdateManyCall(t) ==
    /\ UpdateCall(t)
    /\ Get(call[t].params, "operation") = Str("updateMany")
    /\ Get(call[t].params, "filter").type = "object"
    /\ KeyCount(Get(call[t].params, "filter")) > 0
    /\ isConnected

\* the documents of the collection that matched the call's filter when it began
MatchedByUpdate(t) ==
    { d \in Docs(call[t].store0) : Matches(d, Get(call[t].params, "filter")) }

\* C7: an updateMany whose filter matches k documents, when no store
\* operation is rejected: with k > 50 and allowBulkUpdate not set it fails,
\* the error names k and no document is modified; with k <= 50 or the flag
\* set, a well-formed update is applied to the k documents.
C7_BulkGuardNamesMatched ==
    \A t \in Turns :
        (UpdateManyCall(t) /\ Returned_(t) /\ ~StoreFailed(t)) =>
            LET k == Cardinality(MatchedByUpdate(t))
                flag == Truthy(Get(UpdateOptions(call[t].params), "allowBulkUpdate"))
            IN  IF k > BulkUpdateLimit /\ ~flag
                THEN /\ ReturnedFailure(t)
                     /\ call[t].outcome.error = BulkUpdateMessage(k)
                     /\ store = call[t].store0
                ELSE (k > 0 /\ Get(call[t].params, "update") = SetVal) =>
                        /\ ReturnedSuccess(t)
                        /\ call[t].outcome.matchedCount = k
                        /\ \A d \in MatchedByUpdate(t) :
                               ApplyUpdate(d, SetVal) \in Docs(store)

(***************************************************************************)
(* Properties of the query tool.                                           *)
(***************************************************************************)
QueryCall(t, operation) ==
    /\ call[t].tool = "fetch_mongodb_data"
    /\ call[t].params.type = "object"
    /\ Get(call[t].params, "operation") = Str(operation)

\* C8: a find that returns documents returns at most 100 of them, and at
\* most the requested limit when a number was requested, whatever the limit
\* (above 100, omitted, zero, negative) and the number of matching documents.
C8_FindCapped ==
    \A t \in Turns :
        (QueryCall(t, "find") /\ ReturnedSuccess(t)) =>
            LET limit == Get(call[t].params, "limit")
                returned == Len(call[t].outcome.data.items)
            IN  /\ returned <= FindLimitCap
                /\ limit.type = "number" => returned <= limit.num

\* C9: an aggregate with a requested limit above 100 that returns documents
\* returns at most 100 of them.
C9_AggregateCapped ==
    \A t \in Turns :
        (/\ QueryCall(t, "aggregate") /\ ReturnedSuccess(t)
         /\ Get(call[t].params, "limit").type = "number"
         /\ Get(call[t].params, "limit").num > FindLimitCap) =>
            Len(call[t].outcome.data.items) <= FindLimitCap

(***************************************************************************)
(* Properties of the insert tool.                                          *)
(***************************************************************************)
\* turn slot t holds an insertMany call of the insert tool with an array of
\* documents
InsertManyCall(t) ==
    /\ call[t].tool = "insert_mongodb_data"
    /\ call[t].params.type = "object"
    /\ Get(call[t].params, "operation") = Str("insertMany")
    /\ Get(call[t].params, "data").type = "array"

DataLength(t) == Len(Get(call[t].params, "data").items)

\* C10: an insertMany with more than 100 documents returns a failure outcome
\* at once, issues no store operation and inserts nothing; one with exactly
\* 100 documents is never refused for its size, and on a connected
\* collection it issues the insert.
C10_InsertManyGuard ==
    \A t \in Turns :
        InsertManyCall(t) =>
            /\ DataLength(t) > MaxInsertDocs =>
                  /\ ReturnedFailure(t)
                  /\ call[t].ops = <<>>
                  /\ store = call[t].store0
            /\ DataLength(t) = MaxInsertDocs =>
                  /\ ~(ReturnedFailure(t) /\ call[t].outcome.error = TooManyMessage)
                  /\ isConnected => call[t].ops = <<"insertMany">>

\* an insertMany of MaxInsertDocs + 1 documents on a connected collection was
\* refused for its size
C10_Witness ==
    \E t \in Turns :
        /\ InsertManyCall(t)
        /\ DataLength(t) = MaxInsertDocs + 1
        /\ isConnected
        /\ ReturnedFailure(t)
        /\ call[t].outcome.error = TooManyMessage
        /\ call[t].ops = <<>>

(***************************************************************************)
(* Properties of the tool boundary.                                        *)
(***************************************************************************)
\* C11: for every tool and every value of the parsed arguments (an object
\* with or without its fields, or null), with the store connected or not and
\* its operations resolving or rejecting, execute never throws: a call that
\* has ended has returned an outcome tagged success true or false.
C11_ExecuteNeverThrows ==
    \A t \in Turns :
        /\ call[t].pc # "threw"
        /\ call[t].pc = "done" => call[t].outcome.success \in BOOLEAN

(***************************************************************************)
(* Properties of a turn that fails.                                        *)
(***************************************************************************)
\* the turn has returned failure
Failed(t) == turn[t].pc = "done" /\ ~turn[t].ret.success

\* the model requests the turn has sent
Rounds(t) == Len(turn[t].sent)

\* what a failed turn returns, and what it had done when it failed
FailureReturned(t) ==
    Failed(t) =>
        /\ turn[t].ret.error = <<"LLM request failed: ">> \o ModelErrorDetail
        /\ turn[t].ret.response = Apology
        /\ Rounds(t) \in {1, 2}
        /\ Rounds(t) = 1 => turn[t].invoked = <<>> /\ turn[t].results = <<>>
        /\ Rounds(t) = 2 => BatchOver(t)

\* a turn that has returned does nothing more
StopsWhenDone(t) == turn[t].pc = "done" => turn'[t] = turn[t]

\* C12: a turn whose first or second model call fails returns success:false
\* with the underlying error message and the apology text as response; it
\* stops there: having returned, it sends no further model request and
\* executes no further tool.
C12_ModelFailureStopsTurn ==
    /\ [](\A t \in Turns : FailureReturned(t))
    /\ [][\A t \in Turns : StopsWhenDone(t)]_vars

\* the second model call of a turn with tool calls failed: the tools had been
\* executed, and the turn returned the failure with the apology
C12_Witness ==
    \E t \in Turns :
        /\ Failed(t)
        /\ Rounds(t) = 2
        /\ Len(turn[t].invoked) >= 1
        /\ turn[t].ret.response = Apology

\* C13: a turn that fails keeps what it appended: the history is the history
\* before the turn followed by the user message alone when the first model
\* call failed, and by the user message, the assistant message with the N
\* calls and the N tool messages when the second failed; it is never the
\* history before the turn.
C13_NoRollback ==
    \A t \in Turns :
        Failed(t) =>
            LET N == Len(Calls(t))
                p == turn[t].pushed
            IN  /\ conversationHistory = turn[t].history0 \o p
                /\ conversationHistory # turn[t].history0
                /\ p[1] = UserMessage(turn[t].userMessage)
                /\ Rounds(t) = 1 => Len(p) = 1
                /\ Rounds(t) = 2 =>
                      /\ Len(p) = N + 2
                      /\ p[2].role = "assistant" /\ p[2].tool_calls = Calls(t)
                      /\ \A i \in 1..N : p[2 + i].role = "tool"

\* the second model call failed after a batch of MaxCalls tool calls, on a
\* history that was not empty: MaxCalls + 2 messages were added and remain
C13_Witness ==
    \E t \in Turns :
        /\ Failed(t)
        /\ Rounds(t) = 2
        /\ Len(Calls(t)) = MaxCalls
        /\ turn[t].history0 # <<>>
        /\ Len(conversationHistory) = Len(turn[t].history0) + MaxCalls + 2

(***************************************************************************)
(* Properties of every turn, overlapping turns included.                   *)
(***************************************************************************)
\* the first round asks with the tool contracts, the second for a synthesis
FirstRound(request) == request.messages[1] = SystemMessage(SystemPrompt)
SecondRound(request) ==
    request.messages[1] = SystemMessage(SystemPrompt \o SynthesisSuffix)

NoRepeat(seq) == \A j, k \in 1..Len(seq) : seq[j] = seq[k] => j = k

\* C14: in every turn, at any point and however it ends, each tool call of
\* the batch has had its tool invoked at most once and has returned at most
\* once, and the turn has sent at most two model requests: the first round
\* once and, after it, the second round once.
C14_AtMostOnce ==
    \A t \in Turns :
        /\ NoRepeat(turn[t].invoked)
        /\ \A k \in 1..Len(turn[t].invoked) : turn[t].invoked[k] \in 1..Len(Calls(t))
        /\ NoRepeat([k \in 1..Len(turn[t].returned) |-> turn[t].returned[k].idx])
        /\ Returned(t) \subseteq Invoked(t)
        /\ Rounds(t) <= 2
        /\ Rounds(t) >= 1 => FirstRound(turn[t].sent[1])
        /\ Rounds(t) = 2 => SecondRound(turn[t].sent[2])

\* a turn in which a tool call failed and then the second model call failed
\* has ended with each tool invoked once and two requests sent
C14_Witness ==
    \E t \in Turns :
        /\ Failed(t)
        /\ Rounds(t) = 2
        /\ Len(turn[t].invoked) = MaxCalls
        /\ \E i \in 1..Len(turn[t].results) : ~turn[t].results[i].result.success

\* the turn is suspended on a model call or on a tool
InProgress(t) == turn[t].pc \in {"awaitModel1", "awaitTool", "awaitModel2"}

\* C15: at no time are two turns in progress on the orchestrator: while one
\* turn is suspended on a model call or a store operation, no other
\* processMessage call has started.
C15_OneTurnAtATime ==
    \A t, u \in Turns : (InProgress(t) /\ InProgress(u)) => t = u

(***************************************************************************)
(* Properties of the history.                                              *)
(***************************************************************************)
\* message j of the history is an assistant message that lists a call with this id
ListsCall(j, id) ==
    /\ HasCalls(conversationHistory[j])
    /\ \E k \in 1..Len(conversationHistory[j].tool_calls) :
           conversationHistory[j].tool_calls[k].id = id

\* C16: in every state of the history, under turns that succeed, fail or
\* overlap and under clearHistory, every message with role tool carries the
\* id of a tool call listed in an assistant message earlier in the history.
C16_ToolMessageFollowsItsCall ==
    \A i \in 1..Len(conversationHistory) :
        conversationHistory[i].role = "tool" =>
            \E j \in 1..(i - 1) :
                ListsCall(j, conversationHistory[i].tool_call_id)

\* two turns overlapped (the history begins with their two user messages), one
\* of them has appended its batch with the tool messages and a turn is still
\* in progress
C16_Witness ==
    /\ Len(conversationHistory) >= 4
    /\ conversationHistory[1].role = "user"
    /\ conversationHistory[2].role = "user"
    /\ \E i \in 3..Len(conversationHistory) : conversationHistory[i].role = "tool"
    /\ \E t \in Turns : InProgress(t)

\* s is an initial part of r
IsPrefix(s, r) == Len(s) <= Len(r) /\ SubSeq(r, 1, Len(s)) = s

\* C17: the history is empty after construction, and every step either
\* leaves the history of before as an initial part of the history of after
\* (nothing removed, reordered or changed) or is clearHistory.
C17_AppendOnly ==
    /\ conversationHistory = <<>>
    /\ [][IsPrefix(conversationHistory, conversationHistory') \/ clearHistory]_vars

\* a turn has returned, its messages were cleared, and the history has grown again
C17_Witness ==
    \E t \in Turns :
        /\ turn[t].pc = "done"
        /\ Len(conversationHistory) < Len(turn[t].pushed)
        /\ conversationHistory # <<>>

(***************************************************************************)
(* Properties of a batch and of what a turn returns.                       *)
(***************************************************************************)
\* C18: when the batch is over, every request whose tool name is not
\* registered, whatever its arguments, has the result {success: false,
\* error: "Unknown tool: <name>"}, its tool was not invoked, and every other
\* request of the batch has its result too.
C18_UnknownToolOutcome ==
    \A t \in Turns :
        BatchOver(t) =>
            /\ Len(turn[t].results) = Len(Calls(t))
            /\ \A i \in 1..Len(Calls(t)) :
                  Calls(t)[i].function.name \notin DOMAIN tools =>
                      /\ turn[t].results[i].result =
                             [success |-> FALSE,
                              error |-> UnknownToolMessage(Calls(t)[i].function.name)]
                      /\ i \notin Invoked(t)

\* C19: a successful turn with N tool calls returns toolsUsed and
\* toolResults of length N, toolsUsed[i] the tool name of request i and
\* toolResults[i] the result of request i (the tool's outcome when the tool
\* returned one); the i-th tool message it appended has the id of request i
\* and the JSON text of toolResults[i]; without tool calls both are empty.
C19_ReturnedToolsAndResults ==
    \A t \in Turns :
        Succeeded(t) =>
            LET N == Len(Calls(t))
                ret == turn[t].ret
            IN  /\ Len(ret.toolsUsed) = N
                /\ Len(ret.toolResults) = N
                /\ \A i \in 1..N :
                      /\ ret.toolsUsed[i] = Calls(t)[i].function.name
                      /\ ret.toolResults[i] = turn[t].results[i].result
                      /\ turn[t].results[i].tool_call_id = Calls(t)[i].id
                      /\ turn[t].pushed[2 + i] =
                             [role |-> "tool",
                              content |-> JSONstringify(ret.toolResults[i]),
                              tool_call_id |-> Calls(t)[i].id]
                /\ \A k \in 1..Len(turn[t].returned) :
                      ret.toolResults[turn[t].returned[k].idx] = turn[t].returned[k].outcome

\* a successful turn with MaxCalls tool calls whose first result is a failure
\* and whose last is the success outcome of its tool
C19_Witness ==
    \E t \in Turns :
        /\ Succeeded(t)
        /\ Len(Calls(t)) = MaxCalls
        /\ Len(turn[t].ret.toolsUsed) = MaxCalls
        /\ ~turn[t].ret.toolResults[1].success
        /\ turn[t].ret.toolResults[MaxCalls] = OutcomeSuccess

\* the second request of the turn and what followed it
SecondRequestBare(t) ==
    Rounds(t) = 2 =>
        /\ turn[t].sent[2].tools = {}
        /\ SecondRound(turn[t].sent[2])
        /\ Succeeded(t) =>
              /\ ~HasCalls(turn[t].pushed[Len(turn[t].pushed)])
              /\ turn[t].pushed[Len(turn[t].pushed)] =
                     AssistantMessage(turn[t].finalResponse.content)

\* once the second request is sent the turn invokes no tool
NoToolAfterSecondRequest(t) ==
    Rounds(t) = 2 =>
        /\ turn'[t].invoked = turn[t].invoked
        /\ turn'[t].returned = turn[t].returned
        /\ turn'[t].pc \in {"awaitModel2", "done"}

\* C20: the second model request of a turn carries no tool contracts; after
\* it is sent the turn executes no tool, also when the second response
\* carries tool calls; and the message appended for the second response is
\* an assistant message with its content and without tool calls.
C20_SecondRoundWithoutTools ==
    /\ [](\A t \in Turns : SecondRequestBare(t))
    /\ [][\A t \in Turns : NoToolAfterSecondRequest(t)]_vars

\* the second response of a turn carried a tool call: the turn has returned
\* success, no tool was invoked for it and its message lists no call
C20_Witness ==
    \E t \in Turns :
        /\ Succeeded(t)
        /\ Rounds(t) = 2
        /\ Len(turn[t].finalResponse.tool_calls) > 0
        /\ Len(turn[t].invoked) <= Len(Calls(t))
        /\ ~HasCalls(conversationHistory[Len(conversationHistory)])

\* the batch of turn t is over and some of its calls ended in a failure outcome
SomeFailed(t) ==
    /\ BatchOver(t)
    /\ \E i \in 1..Len(turn[t].results) : ~turn[t].results[i].result.success

\* C28: failure outcomes of tools do not make a turn fail: when the batch is
\* over each outcome, the failures included, has been appended as a tool
\* message and the second model request has been sent; the turn returns
\* failure only for a failed model call, and when it returns success the
\* failure outcomes are listed in toolResults.
C28_ToolFailuresSurfaced ==
    \A t \in Turns :
        SomeFailed(t) =>
            LET N == Len(Calls(t))
            IN  /\ Rounds(t) = 2
                /\ \A i \in 1..N :
                      turn[t].pushed[2 + i] =
                          [role |-> "tool",
                           content |-> JSONstringify(turn[t].results[i].result),
                           tool_call_id |-> Calls(t)[i].id]
                /\ Failed(t) =>
                      turn[t].ret.error = <<"LLM request failed: ">> \o ModelErrorDetail
                /\ Succeeded(t) =>
                      \A i \in 1..N :
                          turn[t].ret.toolResults[i] = turn[t].results[i].result

\* every call of a batch of MaxCalls ended in a failure outcome, one of them
\* returned by a tool, and the turn returned success with the failures
C28_Witness ==
    \E t \in Turns :
        /\ Succeeded(t)
        /\ Len(Calls(t)) = MaxCalls
        /\ \A i \in 1..MaxCalls : ~turn[t].ret.toolResults[i].success
        /\ \E k \in 1..Len(turn[t].returned) : turn[t].returned[k].outcome = OutcomeFailure
        /\ Rounds(t) = 2

\* C30: in a turn whose first response requests tools, while a tool of the
\* batch is executing the history already ends with the assistant message
\* that carries the requests (followed by the tool messages appended so
\* far): that message is appended before the first tool is executed.
C30_AssistantBeforeTools ==
    \A t \in Turns :
        turn[t].pc = "awaitTool" =>
            \E k \in 1..Len(conversationHistory) :
                /\ conversationHistory[k] = AssistantCallsMessage(turn[t].response)
                /\ \A j \in (k + 1)..Len(conversationHistory) :
                       conversationHistory[j].role = "tool"

(***************************************************************************)
(* Properties of the callers of the /chat route.                           *)
(***************************************************************************)
Messages(seq) == { seq[k] : k \in 1..Len(seq) }

\* turn t sends a model request in this step
Sends(t) == Len(turn'[t].sent) > Len(turn[t].sent)

\* the request turn t sends in this step
SentNow(t) == turn'[t].sent[Len(turn'[t].sent)]

\* C29: there is one conversation for all callers.  processMessage does the
\* same whatever conversationId it is given, and every model request of a
\* turn carries, after the system message, the whole shared history: the
\* messages appended so far by every other turn are in it, whatever the
\* conversationId of those turns.
C29_OneConversation ==
    [][/\ \A t \in Turns, c1 \in ConversationIds, c2 \in ConversationIds :
            \A m \in {CallerText(c) : c \in ConversationIds} :
                StartTurn(t, m, c1) => StartTurn(t, m, c2)
       /\ \A t \in Turns :
            Sends(t) =>
                /\ Tail(SentNow(t).messages) = conversationHistory'
                /\ \A u \in Turns \ {t} :
                       Messages(turn[u].pushed) \subseteq Messages(SentNow(t).messages)]_vars

\* two turns of different callers: the first request of the second turn
\* carries the first caller's question and the answer given to it
C29_Witness ==
    /\ turn[1].userMessage = CallerText("default")
    /\ turn[2].userMessage = CallerText("other")
    /\ Succeeded(1)
    /\ turn[2].pc # "idle"
    /\ UserMessage(CallerText("default")) \in Messages(turn[2].sent[1].messages)
    /\ turn[1].pushed[Len(turn[1].pushed)] \in Messages(turn[2].sent[1].messages)
    /\ UserMessage(CallerText("other")) \in Messages(conversationHistory)
    /\ UserMessage(CallerText("default")) \in Messages(conversationHistory)

(***************************************************************************)
(* Properties of the registry.                                             *)
(***************************************************************************)
\* C21: no registration replaces a registered contract: a registerTool call
\* with a name already present leaves the registry as it was, so every name
\* keeps the contract first registered under it.
C21_DuplicateNameRefused ==
    [][\A n \in DOMAIN tools : n \in DOMAIN tools' /\ tools'[n] = tools[n]]_vars

\* C22: whatever the history holds, getHistory right after clearHistory
\* returns the empty sequence.
C22_ClearThenEmpty ==
    [][clearHistory => getHistory' = <<>>]_vars

\* the history of a turn that had appended its messages was cleared: it is
\* empty, and so is what getHistory returns
C22_Witness ==
    \E t \in Turns :
        /\ Len(turn[t].pushed) >= 3
        /\ conversationHistory = <<>>
        /\ getHistory = <<>>

\* C23: a tool registered under a name not yet present appears in getToolInfo
\* with the very name, description and parameters it was registered with,
\* and getToolInfo has exactly one entry for every registered name.
C23_RegisterThenListed ==
    [][\A tool \in LaterTools :
          (registerTool(tool) /\ tool.name \notin DOMAIN tools)
              => /\ tool.name \in DOMAIN getToolInfo(tools')
                 /\ getToolInfo(tools')[tool.name] =
                        [name |-> tool.name, description |-> tool.description,
                         parameters |-> tool.parameters]
                 /\ DOMAIN getToolInfo(tools') = DOMAIN tools \cup {tool.name}
                 /\ \A n \in DOMAIN tools : getToolInfo(tools')[n] = getToolInfo(tools)[n]]_vars

\* a tool was registered after construction under a name of its own and
\* getToolInfo lists it next to the constructed ones
C23_Witness ==
    /\ "extra_tool" \in DOMAIN tools
    /\ getToolInfo(tools)["extra_tool"].name = "extra_tool"
    /\ getToolInfo(tools)["extra_tool"].parameters = <<"schema of ", "extra_tool">>
    /\ Cardinality(DOMAIN getToolInfo(tools)) = Cardinality(DOMAIN ConstructedTools) + 1

(***************************************************************************)
(* Further properties of the update tool.                                  *)
(***************************************************************************)
\* a replaceOne with a non-empty filter whose replacement document has a key
\* beginning with "$"
ReplaceWithOperators(t) ==
    /\ UpdateCall(t)
    /\ Get(call[t].params, "operation") = Str("replaceOne")
    /\ Get(call[t].params, "filter").type = "object"
    /\ KeyCount(Get(call[t].params, "filter")) > 0
    /\ Get(call[t].params, "update").type = "object"
    /\ HasUpdateOperators(Get(call[t].params, "update"))

\* C24: a replaceOne whose replacement document has a key beginning with "$"
\* returns a failure outcome and modifies no document, for every non-empty
\* filter and every content of the store, a filter that matches no document
\* included.
C24_ReplaceWithOperatorsFails ==
    \A t \in Turns :
        (ReplaceWithOperators(t) /\ Returned_(t)) =>
            /\ ReturnedFailure(t)
            /\ store = call[t].store0

(***************************************************************************)
(* Further properties of the query tool.                                   *)
(***************************************************************************)
\* C26: a distinct call without a field argument returns a failure outcome
\* at once and issues no operation on the store, whatever the collection
\* holds and whatever the query is.
C26_DistinctNeedsField ==
    \A t \in Turns :
        (QueryCall(t, "distinct") /\ Get(call[t].params, "field") = Undefined) =>
            /\ ReturnedFailure(t)
            /\ call[t].ops = <<>>
            /\ store = call[t].store0

\* a distinct with a query and no field, on a connected collection that has
\* documents, was refused for the missing field
C26_Witness ==
    \E t \in Turns :
        /\ QueryCall(t, "distinct")
        /\ Get(call[t].params, "field") = Undefined
        /\ Get(call[t].params, "query") = FilterA
        /\ isConnected
        /\ Len(store) > 0
        /\ ReturnedFailure(t)
        /\ call[t].outcome.error = FieldRequiredMessage

(***************************************************************************)
(* Further properties of the insert tool.                                  *)
(***************************************************************************)
\* turn slot t holds an insertOne of a document or an insertMany of an array
\* of documents
InsertCall(t) ==
    /\ call[t].tool = "insert_mongodb_data"
    /\ call[t].params.type = "object"
    /\ \/ /\ Get(call[t].params, "operation") = Str("insertOne")
          /\ Get(call[t].params, "data").type = "object"
       \/ InsertManyCall(t)

\* the documents the caller handed to the call
Supplied(t) ==
    LET data == Get(call[t].params, "data")
    IN  IF data.type = "array" THEN data.items ELSE <<data.fields>>

\* an identifier made during the call, by the tool or by the driver it calls
Generated(id) == id.by \in {"tool", "driver"}

\* C25: every document inserted by insertOne or insertMany has a generated
\* identifier, unless the caller both set generateId to false and supplied
\* an _id of its own; with generateId true or omitted the identifier is
\* always a generated one.
C25_GeneratedIdentifier ==
    \A t \in Turns :
        (InsertCall(t) /\ ReturnedSuccess(t)) =>
            \A i \in 1..Len(call[t].outcome.insertedIds) :
                LET own == "_id" \in DOMAIN Supplied(t)[i]
                    off == Get(call[t].params, "generateId") = Bool(FALSE)
                IN  ~(off /\ own) => Generated(call[t].outcome.insertedIds[i])

\* turn slot t holds an insertOne call whose data is an array
InsertOneOfArray(t) ==
    /\ call[t].tool = "insert_mongodb_data"
    /\ call[t].params.type = "object"
    /\ Get(call[t].params, "operation") = Str("insertOne")
    /\ Get(call[t].params, "data").type = "array"

\* C27: an insertOne whose data is an array, the empty one included, returns
\* a failure outcome at once and inserts nothing: no insert is issued, and
\* on a connected collection the error is the one that points to insertMany.
C27_InsertOneRefusesArray ==
    \A t \in Turns :
        InsertOneOfArray(t) =>
            /\ ReturnedFailure(t)
            /\ call[t].ops = <<>>
            /\ store = call[t].store0
            /\ isConnected => call[t].outcome.error = ArrayDataMessage

\* an insertOne of the empty array was refused on a connected collection that
\* has documents
C27_Witness ==
    \E t \in Turns :
        /\ InsertOneOfArray(t)
        /\ DataLength(t) = 0
        /\ isConnected
        /\ Len(store) > 0
        /\ ReturnedFailure(t)
        /\ call[t].outcome.error = ArrayDataMessage
        /\ store = call[t].store0

(***************************************************************************)
(* The order of the tool actions of a batch.                               *)
(***************************************************************************)
\* the calls of turn t whose tool was started and has neither returned nor
\* thrown yet: a call that is over has its result
InProgressCalls(t) == { i \in Invoked(t) : i > Len(turn[t].results) }

\* C31: the tool actions of a batch run one after another in request order:
\* a tool is started only when every earlier call of the batch has its
\* result, at most one tool action of the batch is in progress at a time,
\* and the second model request is sent only when all N calls are over.
C31_OneToolAtATime ==
    \A t \in Turns :
        LET N == Len(Calls(t))
            inv == turn[t].invoked
        IN  /\ \A j, k \in 1..Len(inv) : j < k => inv[j] < inv[k]
            /\ Cardinality(InProgressCalls(t)) <= 1
            /\ turn[t].pc = "awaitTool" =>
                  /\ InProgressCalls(t) = {turn[t].idx}
                  /\ Len(turn[t].results) = turn[t].idx - 1
                  /\ Rounds(t) = 1
            /\ Rounds(t) = 2 =>
                  /\ N > 0
                  /\ Len(turn[t].results) = N
                  /\ InProgressCalls(t) = {}

\* the second tool of a batch is running: the first was started before it
\* and has returned
C31_Witness ==
    \E t \in Turns :
        /\ turn[t].pc = "awaitTool"
        /\ turn[t].idx = 2
        /\ turn[t].invoked = <<1, 2>>
        /\ Len(turn[t].returned) = 1
        /\ turn[t].returned[1].idx = 1
        /\ Len(turn[t].results) = 1

(***************************************************************************)
(* Properties of the four store tools together.                            *)
(***************************************************************************)
\* the errors of the checks that read the arguments only
ArgumentErrors(params) ==
    {ConfirmationMessage, EmptyFilterMessage, UpdateFilterMessage,
     FieldRequiredMessage, ArrayDataMessage, TooManyMessage,
     ReplaceOperatorsMessage, UnsupportedMessage(Get(params, "operation"))}

\* the call of slot t was rejected by a check of its arguments
RejectedForArguments(t) ==
    /\ call[t].params.type = "object"
    /\ ReturnedFailure(t)
    /\ call[t].outcome.error \in ArgumentErrors(call[t].params)

\* C32: validation of the arguments precedes every access to the store: a
\* call rejected for its arguments alone (filter, confirmation, distinct
\* field, array data, number of documents, operator keys of a replacement,
\* unsupported operation) has issued no operation on the store.
C32_ValidationBeforeStore ==
    \A t \in Turns : RejectedForArguments(t) => call[t].ops = <<>>

(***************************************************************************)
(* Further properties of the delete tool.                                  *)
(***************************************************************************)
\* the operations of the call that delete
DeleteOps(t) ==
    { k \in 1..Len(call[t].ops) : call[t].ops[k] \in {"deleteOne", "deleteMany"} }

\* C33: a successful deleteOne or deleteMany with no other writer: when no
\* document matches, deletedCount is 0, no delete operation is issued and
\* the collection is as it was; otherwise documentsDeleted lists, each once,
\* documents that matched the filter before the deletion and are gone after
\* it, min(deletedCount, 1) of them for deleteOne and min(deletedCount, 100)
\* for deleteMany.
C33_DocumentsDeleted ==
    \A t \in Turns :
      /\ (/\ DeleteCall(t) /\ Returned_(t) /\ ~StoreFailed(t)
          /\ \E k \in 1..Len(call[t].ops) : call[t].ops[k] = "find"
          /\ MatchedAtStart(t) = {}) => ReturnedSuccess(t)
      /\ (DeleteCall(t) /\ ReturnedSuccess(t)) =>
            IF MatchedAtStart(t) = {}
            THEN /\ call[t].outcome.deletedCount = 0
                 /\ DeleteOps(t) = {}
                 /\ store = call[t].store0
            ELSE LET listed == call[t].outcome.documentsDeleted
                     cap == IF Get(call[t].params, "operation") = Str("deleteOne")
                            THEN 1 ELSE DeleteSnapshotLimit
                 IN  /\ Docs(listed) \subseteq MatchedAtStart(t)
                     /\ Docs(listed) \cap Docs(store) = {}
                     /\ Cardinality(Docs(listed)) = Len(listed)
                     /\ Len(listed) = Min(call[t].outcome.deletedCount, cap)
                     /\ call[t].outcome.deletedCount =
                            Len(call[t].store0) - Len(store)

\* a deleteMany with safe mode off removed more documents than the snapshot
\* holds: documentsDeleted lists DeleteSnapshotLimit of them
C33_Witness ==
    \E t \in Turns :
        /\ DeleteCall(t)
        /\ ReturnedSuccess(t)
        /\ Get(call[t].params, "operation") = Str("deleteMany")
        /\ call[t].outcome.deletedCount = DeleteSnapshotLimit + 1
        /\ Len(call[t].outcome.documentsDeleted) = DeleteSnapshotLimit
        /\ call[t].ops = <<"find", "deleteMany">>

(***************************************************************************)
(* Further properties of the history under overlapping turns.              *)
(***************************************************************************)
\* C34: in every history, those made by overlapping turns and those cut by
\* clearHistory included, an assistant message that carries N tool calls is
\* followed at once by exactly N tool messages that carry the ids of the N
\* calls in their order; nothing of another turn falls between them.
C34_BatchIsContiguous ==
    \A j \in 1..Len(conversationHistory) :
        HasCalls(conversationHistory[j]) =>
            LET toolCalls == conversationHistory[j].tool_calls
                N == Len(toolCalls)
            IN  /\ j + N <= Len(conversationHistory)
                /\ \A k \in 1..N :
                      /\ conversationHistory[j + k].role = "tool"
                      /\ conversationHistory[j + k].tool_call_id = toolCalls[k].id
                /\ j + N + 1 <= Len(conversationHistory) =>
                      conversationHistory[j + N + 1].role # "tool"

\* two turns overlapped: after their two user messages the batch of one turn
\* with its MaxCalls tool messages is followed at once by the batch of the other
C34_Witness ==
    /\ Len(conversationHistory) >= 2 * MaxCalls + 4
    /\ conversationHistory[1].role = "user"
    /\ conversationHistory[2].role = "user"
    /\ HasCalls(conversationHistory[3])
    /\ Len(conversationHistory[3].tool_calls) = MaxCalls
    /\ HasCalls(conversationHistory[MaxCalls + 4])
    /\ conversationHistory[MaxCalls + 4].tool_calls # conversationHistory[3].tool_calls

\* C35: after clearHistory the history holds messages of turns that started
\* after the clear only: a turn in flight when the history was cleared
\* appends nothing more to it, so every history that is not empty begins
\* with a user message.
C35_ClearedHistoryStartsWithUser ==
    conversationHistory # <<>> => conversationHistory[1].role = "user"

\* C36: a deleteMany in safe mode removes at most 10 documents in every
\* execution, those included in which a tool call of an overlapping turn
\* inserts documents into the collection between the count of the matching
\* documents and the delete operation.
C36_SafeModeUnderRace ==
    \A t \in Turns :
        (ConfirmedDeleteMany(t) /\ Get(call[t].params, "safeMode") \in {Undefined, Bool(TRUE)}
         /\ ReturnedSuccess(t)) =>
            call[t].outcome.deletedCount <= SafeModeLimit

\* the errors of the argument checks, of the safety guards and of the
\* connection check
GuardErrors(t) ==
    ArgumentErrors(call[t].params)
        \cup {NotArrayMessage, NotConnectedMessage, SafeModeMessage(call[t].count),
              BulkUpdateMessage(Len(call[t].snapshot))}

\* C37: a call of the insert, update or delete tool that returns a failure
\* outcome for an argument check, a safety guard or a missing connection
\* leaves the documents of the collection as they were; a call of the query
\* tool leaves them as they were at every point and whatever it returns.
C37_RejectedCallsChangeNothing ==
    \A t \in Turns :
        /\ (/\ call[t].tool \in {"insert_mongodb_data", "update_mongodb_data",
                                 "delete_mongodb_data"}
            /\ call[t].params.type = "object"
            /\ ReturnedFailure(t)
            /\ call[t].outcome.error \in GuardErrors(t)) => store = call[t].store0
        /\ call[t].tool = "fetch_mongodb_data" => store = call[t].store0

\* an updateMany on more than BulkUpdateLimit matching documents was refused
\* by the bulk guard after its snapshot, and the collection is as it was
C37_Witness ==
    \E t \in Turns :
        /\ UpdateManyCall(t)
        /\ ReturnedFailure(t)
        /\ call[t].outcome.error = BulkUpdateMessage(Len(call[t].snapshot))
        /\ Len(call[t].snapshot) > BulkUpdateLimit
        /\ call[t].ops = <<"find">>
        /\ store = call[t].store0

\* C38: a call of any of the four tools whose operation is none of the tool's
\* operations returns a failure outcome, whatever the collection holds and
\* whatever the other arguments are, a filter that matches no document
\* included.
C38_UnsupportedOperationFails ==
    \A t \in Turns :
        (/\ call[t].params.type = "object"
         /\ Get(call[t].params, "operation") = Str("drop")
         /\ Returned_(t)) => ReturnedFailure(t)

(***************************************************************************)
(* Termination of a turn.                                                  *)
(***************************************************************************)
\* C39: when every model call and every tool call eventually returns or
\* fails, a processMessage call that has started eventually returns; at
\* every point it has sent at most 2 model requests and invoked at most N
\* tools for a batch of N calls, and from the second model round it goes
\* nowhere but to its return.
C39_EveryTurnTerminates ==
    /\ \A t \in Turns : (turn[t].pc # "idle") ~> (turn[t].pc = "done")
    /\ [](\A t \in Turns :
            /\ Rounds(t) <= 2
            /\ Len(turn[t].invoked) <= Len(Calls(t)))
    /\ [][\A t \in Turns :
            turn[t].pc = "awaitModel2" => turn'[t].pc \in {"awaitModel2", "done"}]_vars

\* a turn has returned after two model requests and MaxCalls tool
\* invocations, both tools having returned an outcome
C39_Witness ==
    \E t \in Turns :
        /\ turn[t].pc = "done"
        /\ Rounds(t) = 2
        /\ Len(turn[t].invoked) = MaxCalls
        /\ Len(turn[t].returned) = MaxCalls

====
